---- MODULE Spec2Model ----
(***************************************************************************)
(* Field-data-collection map application (taravudh/geocmu).                *)
(*                                                                         *)
(* Spec     : the drawing gesture engine (DrawingTools) and the Feature    *)
(*            Store kept by MapPlayground: draw, erase, undo.              *)
(* FormSpec : the attribute form over a store of markers.                  *)
(* AppSpec  : Spec and the attribute form together.                        *)
(* CircleSpec : the circle tool with whole pointer sequences.              *)
(* MeasureSpec : the distance / area measurement overlay.                  *)
(* ToolSpec : drawing tools and measurement tools chosen in any order.    *)
(* RetrySpec : one camera opening in which every attempt fails.            *)
(* RelaxSpec : RetrySpec without the Try Again button.                    *)
(* GPSSpec  : GPS tracking (the geolocation watch).                        *)
(* TrackSpec : drawing and measuring while GPS fixes arrive.              *)
(* VectorSpec : the vector layer list and GeoJSON upload.                  *)
(* PhotoSpec : the field photo list, with markers, eraser and undo.       *)
(* ExportSpec : the CSV export dialog (DataExporter).                      *)
(* RelaySpec : the camera button of a feature's popup under every tool.    *)
(* CamSpec  : the CameraCapture modal (streams, timers, promises).         *)
(*                                                                         *)
(* React is modelled as it schedules the code: a handler runs to its end,  *)
(* then the component re-renders and the effects whose dependencies        *)
(* changed run (clean-ups first, bodies second) until nothing changes.     *)
(***************************************************************************)
EXTENDS Integers, Sequences, FiniteSets, TLC

\* ------------------------------------------------------------------ bounds
\* Number of inputs that carry data in one run: map clicks that add a
\* vertex or a marker, pointer moves that redraw a preview, and edits made
\* in the attribute form.
MaxInputs == 3
\* Scale of the coordinate grid: metres and screen pixels per grid unit.
GridMeters == 1000
GridPx == 100
\* initializeCamera calls in one run.
MaxCalls == 3
\* initializeCamera calls in one run in which every attempt fails.
MaxFailedCalls == 6

\* setTimeout(clearMeasurement) calls of one effect run that are pending
MaxPending == 2

\* geolocation watches registered in one run
MaxWatches == 12

\* files chosen for upload in one run
MaxUploads == 3

\* ------------------------------------------------- program constants
\* erase hit test: a marker is hit within 50 metres
MarkerHitMeters == 50
\* erase hit test: a polyline is hit within 20 pixels of a segment
LineHitPx == 20

Null == [null |-> TRUE]

\* --------------------------------------------------- exact arithmetic
\* Coordinates are rationals <<numerator, denominator>>, denominator > 0,
\* in lowest terms (the projection of the rectangle construction divides).
Abs(x) == IF x < 0 THEN -x ELSE x

RECURSIVE GCD(_, _)
GCD(a, b) == IF b = 0 THEN a ELSE GCD(b, a % b)

QNorm(n, d) ==
  LET s == IF d < 0 THEN -1 ELSE 1
      g == GCD(Abs(n), Abs(d))
  IN  <<(s * n) \div g, (s * d) \div g>>

QInt(n) == <<n, 1>>
QAdd(a, b) == QNorm(a[1] * b[2] + b[1] * a[2], a[2] * b[2])
QSub(a, b) == QNorm(a[1] * b[2] - b[1] * a[2], a[2] * b[2])
QMul(a, b) == QNorm(a[1] * b[1], a[2] * b[2])
QDiv(a, b) == QNorm(a[1] * b[2], a[2] * b[1])
QLe(a, b) == a[1] * b[2] <= b[1] * a[2]
QZero == QInt(0)

\* L.latLng(lat, lng)
LatLng(lat, lng) == [lat |-> lat, lng |-> lng]

\* The places the pointer can be: three grid points, not collinear.
Points ==
  { LatLng(QInt(0), QInt(0)), LatLng(QInt(0), QInt(1)), LatLng(QInt(1), QInt(0)) }

\* p => [p.lng, p.lat]: a vertex as stored in DrawnFeature.coordinates
ToCoord(p) == <<p.lng, p.lat>>
\* the layer's vertex of a stored coordinate pair
FromCoord(c) == LatLng(c[2], c[1])

MapSeq(s, Op(_)) == [i \in 1..Len(s) |-> Op(s[i])]

\* squared distance of two grid points, in grid units
DistSq(a, b) ==
  LET dlat == QSub(a.lat, b.lat)
      dlng == QSub(a.lng, b.lng)
  IN  QAdd(QMul(dlat, dlat), QMul(dlng, dlng))

\* ------------------------------------------------------ DrawingTools
\* Calculate rectangle corners from three points
calculateRectangleCorners(p1, p2, p3) ==
  LET v1lat == QSub(p2.lat, p1.lat)
      v1lng == QSub(p2.lng, p1.lng)
      v2lat == QSub(p3.lat, p1.lat)
      v2lng == QSub(p3.lng, p1.lng)
      dotProduct == QAdd(QMul(v1lat, v2lat), QMul(v1lng, v2lng))
      v1LengthSquared == QAdd(QMul(v1lat, v1lat), QMul(v1lng, v1lng))
  IN  IF v1LengthSquared = QZero THEN <<p1, p2, p3, p1>>
      ELSE
        LET projection == QDiv(dotProduct, v1LengthSquared)
            projLat == QAdd(p1.lat, QMul(projection, v1lat))
            projLng == QAdd(p1.lng, QMul(projection, v1lng))
            perpLat == QSub(p3.lat, projLat)
            perpLng == QSub(p3.lng, projLng)
            corner1 == p1
            corner2 == p2
            corner3 == LatLng(QAdd(p2.lat, perpLat), QAdd(p2.lng, perpLng))
            corner4 == LatLng(QAdd(p1.lat, perpLat), QAdd(p1.lng, perpLng))
        IN  <<corner1, corner2, corner3, corner4, corner1>>

EmptyAttributes == {}

\* createFeature: the DrawnFeature record; id and timestamp come from the
\* clock (a fresh number), attributes start empty.  radiusSq is the
\* squared radius of a circle (0 for the other kinds).
createFeature(id, type, coordinates, radiusSq) ==
  [ id |-> id,
    type |-> type,
    coordinates |-> coordinates,
    radiusSq |-> radiusSq,
    attributes |-> EmptyAttributes,
    timestamp |-> id ]

\* The closure variables of the DrawingTools effect, as it starts.
InitGesture ==
  [ isDrawing |-> FALSE,
    currentShape |-> Null,
    startPoint |-> Null,
    polygonPoints |-> << >>,
    polylinePoints |-> << >>,
    tempMarkers |-> << >>,
    rectanglePoints |-> << >>,
    rectangleStep |-> 0,
    previewLine |-> Null,
    previewRectangle |-> Null ]

VARIABLES
  drawingMode,          \* MapPlayground: the active tool
  drawnFeatures,        \* MapPlayground: the Feature Store, in store order
  undoStack,            \* MapPlayground: the discard stack
  selectedFeature,      \* MapPlayground: the feature handed to the form
  isAttributeFormOpen,  \* MapPlayground
  attributes,           \* AttributeForm: the attribute map being edited
  mapLayers,            \* Leaflet: ids of the feature layers on the map
  tempLayers,           \* Leaflet: number of temporary layers on the map
  gesture,              \* DrawingTools: the closure variables of the effect
  nextId,               \* the clock behind createFeature's ids
  inputs,               \* data-carrying inputs handled so far
  lastOp,               \* the handler that ran last, and what it was given
  photos,               \* MapPlayground: the field photos and the camera link
  camera,               \* CameraCapture: state, refs, timers and promises
  measure,              \* MeasurementTools: props, closure variables, layers
  gps,                  \* MapPlayground: GPS tracking state and its watch
  vector,               \* MapPlayground: the vector layers, files being read
  exporter              \* DataExporter: its props, its options, the files it made

\* ---------------------------------------------- handlers' working state
\* What a DrawingTools handler can touch: its closure variables, the map,
\* and the parent callbacks it calls (recorded, applied by the action).
World(g, temp, layers) ==
  [ g |-> g, temp |-> temp, layers |-> layers,
    drawn |-> << >>,       \* onFeatureDrawn(feature) calls
    clicked |-> << >>,     \* onFeatureClick(feature) calls
    complete |-> FALSE,    \* onDrawingComplete() called
    indicator |-> FALSE ]  \* a miss indicator was shown (it removes
                           \* itself 800 ms later; no handler reads it)

addTempMarker(w, latlng) ==
  [w EXCEPT !.temp = @ + 1, !.g.tempMarkers = Append(@, latlng)]

clearTempMarkers(w) ==
  [w EXCEPT !.temp = @ - Len(w.g.tempMarkers), !.g.tempMarkers = << >>]

clearPreviewElements(w) ==
  LET n == (IF w.g.previewLine # Null THEN 1 ELSE 0)
           + (IF w.g.previewRectangle # Null THEN 1 ELSE 0)
  IN  [w EXCEPT !.temp = @ - n,
                !.g.previewLine = Null,
                !.g.previewRectangle = Null]

\* L.polyline / L.polygon / L.circle (...).addTo(map): a layer not yet
\* carrying a feature (layer = 0)
NewShape(kind, latlngs, radiusSq) ==
  [kind |-> kind, latlngs |-> latlngs, radiusSq |-> radiusSq,
   layer |-> 0, onMap |-> TRUE]

\* map.removeLayer(currentShape)
removeCurrentShape(w) ==
  LET s == w.g.currentShape
  IN  IF s = Null \/ ~s.onMap THEN w
      ELSE IF s.layer = 0
        THEN [w EXCEPT !.temp = @ - 1, !.g.currentShape.onMap = FALSE]
        ELSE [w EXCEPT !.layers = @ \ {s.layer},
                       !.g.currentShape.onMap = FALSE]

\* createFeature(currentShape, ...) then onFeatureDrawn(feature): the shape
\* on the map becomes the feature's layer.
emitFeature(w, feature) ==
  LET s == w.g.currentShape
  IN  [w EXCEPT !.drawn = Append(@, feature),
                !.temp = IF s.onMap /\ s.layer = 0 THEN @ - 1 ELSE @,
                !.layers = IF s.onMap THEN @ \cup {feature.id} ELSE @,
                !.g.currentShape.layer = feature.id]

\* ------------------------------------------------------ erase hit test
QLt(a, b) == a[1] * b[2] < b[1] * a[2]

RECURSIVE SeqMin(_), SeqMax(_)
SeqMin(s) ==
  IF Len(s) = 1 THEN s[1]
  ELSE LET m == SeqMin(Tail(s)) IN IF QLe(s[1], m) THEN s[1] ELSE m
SeqMax(s) ==
  IF Len(s) = 1 THEN s[1]
  ELSE LET m == SeqMax(Tail(s)) IN IF QLe(m, s[1]) THEN s[1] ELSE m

\* layer.getBounds().contains(latlng)
BoundsContain(latlngs, p) ==
  LET lats == [i \in 1..Len(latlngs) |-> latlngs[i].lat]
      lngs == [i \in 1..Len(latlngs) |-> latlngs[i].lng]
  IN  /\ QLe(SeqMin(lats), p.lat) /\ QLe(p.lat, SeqMax(lats))
      /\ QLe(SeqMin(lngs), p.lng) /\ QLe(p.lng, SeqMax(lngs))

\* L.LineUtil.pointToSegmentDistance, squared, in grid units
SegmentDistSq(p, a, b) ==
  LET dlat == QSub(b.lat, a.lat)
      dlng == QSub(b.lng, a.lng)
      dot == QAdd(QMul(dlat, dlat), QMul(dlng, dlng))
  IN  IF dot = QZero THEN DistSq(p, a)
      ELSE
        LET t == QDiv(QAdd(QMul(QSub(p.lat, a.lat), dlat),
                           QMul(QSub(p.lng, a.lng), dlng)), dot)
        IN  IF QLt(QInt(1), t) THEN DistSq(p, b)
            ELSE IF QLt(QZero, t)
              THEN DistSq(p, LatLng(QAdd(a.lat, QMul(dlat, t)),
                                    QAdd(a.lng, QMul(dlng, t))))
              ELSE DistSq(p, a)

\* isWithinFeature of handleMapClick in erase mode, by the class of the layer
isWithinFeature(feature, p) ==
  LET latlngs == IF feature.type \in {"polygon", "rectangle"}
                 THEN MapSeq(feature.coordinates[1], FromCoord)
                 ELSE MapSeq(feature.coordinates, FromCoord)
  IN  CASE feature.type = "marker" ->
             QLt(QMul(DistSq(p, latlngs[1]), QInt(GridMeters * GridMeters)),
                 QInt(MarkerHitMeters * MarkerHitMeters))
        [] feature.type = "circle" ->
             QLe(DistSq(p, latlngs[1]), feature.radiusSq)
        [] feature.type \in {"polygon", "rectangle"} ->
             BoundsContain(latlngs, p)
        [] feature.type = "polyline" ->
             \E i \in 1..(Len(latlngs) - 1) :
               QLt(QMul(SegmentDistSq(p, latlngs[i], latlngs[i + 1]),
                        QInt(GridPx * GridPx)),
                   QInt(LineHitPx * LineHitPx))

\* the loop of the erase branch: the features that are on the map and hit
HitIndexes(features, layers, p) ==
  { i \in 1..Len(features) :
      features[i].id \in layers /\ isWithinFeature(features[i], p) }

SetMin(S) == CHOOSE x \in S : \A y \in S : x <= y

\* ------------------------------------------------- DrawingTools handlers
\* A variant of the erase branch whose loop does not stop at the first hit,
\* so that the last feature hit is the one handed to onFeatureClick.
eraseClick_lastHit(w, features, latlng) ==
  LET hits == HitIndexes(features, w.layers, latlng)
      last == CHOOSE x \in hits : \A y \in hits : y <= x
  IN  IF hits # {}
        THEN [w EXCEPT !.clicked = Append(@, features[last])]
        ELSE [w EXCEPT !.indicator = TRUE]

\* handleMapClick, erase branch
eraseClick(w, features, latlng) ==
  LET hits == HitIndexes(features, w.layers, latlng)
  IN  IF hits # {}
        THEN [w EXCEPT !.clicked = Append(@, features[SetMin(hits)])]
        ELSE [w EXCEPT !.indicator = TRUE]

\* handleMapClick, marker branch
markerClick(w, latlng, id) ==
  LET feature == createFeature(id, "marker", <<ToCoord(latlng)>>, QZero)
  IN  [w EXCEPT !.layers = @ \cup {id}, !.drawn = Append(@, feature)]

\* handleMapClick, polyline branch
polylineClick(w, latlng) ==
  IF ~w.g.isDrawing
    THEN LET w1 == addTempMarker(
                     [w EXCEPT !.g.isDrawing = TRUE,
                               !.g.polylinePoints = <<latlng>>], latlng)
         IN  [w1 EXCEPT !.temp = @ + 1,
                        !.g.currentShape = NewShape("polyline", <<latlng>>, QZero)]
    ELSE LET w1 == addTempMarker(
                     [w EXCEPT !.g.polylinePoints = Append(@, latlng)], latlng)
         IN  IF w1.g.currentShape # Null
               THEN [w1 EXCEPT !.g.currentShape.latlngs = w1.g.polylinePoints]
               ELSE w1

\* handleMapClick, polygon branch
polygonClick(w, latlng) ==
  LET w1 == addTempMarker(
              IF ~w.g.isDrawing
                THEN [w EXCEPT !.g.isDrawing = TRUE,
                               !.g.polygonPoints = <<latlng>>]
                ELSE [w EXCEPT !.g.polygonPoints = Append(@, latlng)], latlng)
  IN  IF Len(w1.g.polygonPoints) >= 2
        THEN LET w2 == removeCurrentShape(w1)
             IN  [w2 EXCEPT !.temp = @ + 1,
                            !.g.currentShape =
                               NewShape("polygon", w1.g.polygonPoints, QZero)]
        ELSE w1

\* A variant of the rectangle branch that ends the tool after the third
\* click (calls onDrawingComplete, as the Escape handler does).
rectangleClick_exits(w, latlng, id) ==
  CASE w.g.rectangleStep = 0 ->
         addTempMarker([w EXCEPT !.g.rectanglePoints = <<latlng>>,
                                 !.g.rectangleStep = 1,
                                 !.g.isDrawing = TRUE], latlng)
    [] w.g.rectangleStep = 1 ->
         LET w1 == clearPreviewElements(addTempMarker(
                     [w EXCEPT !.g.rectanglePoints = Append(@, latlng),
                               !.g.rectangleStep = 2], latlng))
         IN  [w1 EXCEPT !.temp = @ + 1,
                        !.g.previewLine = w1.g.rectanglePoints]
    [] w.g.rectangleStep = 2 ->
         LET pts == Append(w.g.rectanglePoints, latlng)
             corners == calculateRectangleCorners(pts[1], pts[2], pts[3])
             w1 == clearTempMarkers(clearPreviewElements(
                     [w EXCEPT !.g.rectanglePoints = pts]))
             w2 == [w1 EXCEPT !.temp = @ + 1,
                              !.g.currentShape =
                                 NewShape("polygon", corners, QZero)]
             feature == createFeature(id, "rectangle",
                                      <<MapSeq(corners, ToCoord)>>, QZero)
         IN  [emitFeature(w2, feature) EXCEPT !.g.rectangleStep = 0,
                                              !.g.rectanglePoints = << >>,
                                              !.g.isDrawing = FALSE,
                                              !.complete = TRUE]
    [] OTHER -> w

\* handleMapClick, rectangle branch
rectangleClick(w, latlng, id) ==
  CASE w.g.rectangleStep = 0 ->
         addTempMarker([w EXCEPT !.g.rectanglePoints = <<latlng>>,
                                 !.g.rectangleStep = 1,
                                 !.g.isDrawing = TRUE], latlng)
    [] w.g.rectangleStep = 1 ->
         LET w1 == clearPreviewElements(addTempMarker(
                     [w EXCEPT !.g.rectanglePoints = Append(@, latlng),
                               !.g.rectangleStep = 2], latlng))
         IN  [w1 EXCEPT !.temp = @ + 1,
                        !.g.previewLine = w1.g.rectanglePoints]
    [] w.g.rectangleStep = 2 ->
         LET pts == Append(w.g.rectanglePoints, latlng)
             corners == calculateRectangleCorners(pts[1], pts[2], pts[3])
             w1 == clearTempMarkers(clearPreviewElements(
                     [w EXCEPT !.g.rectanglePoints = pts]))
             w2 == [w1 EXCEPT !.temp = @ + 1,
                              !.g.currentShape =
                                 NewShape("polygon", corners, QZero)]
             feature == createFeature(id, "rectangle",
                                      <<MapSeq(corners, ToCoord)>>, QZero)
         IN  [emitFeature(w2, feature) EXCEPT !.g.rectangleStep = 0,
                                              !.g.rectanglePoints = << >>,
                                              !.g.isDrawing = FALSE]
    [] OTHER -> w

\* handleMapClick, circle branch
circleClick(w, latlng) ==
  IF ~w.g.isDrawing
    THEN addTempMarker([w EXCEPT !.g.isDrawing = TRUE,
                                 !.g.startPoint = latlng], latlng)
    ELSE w

handleMapClick(w, mode, features, latlng, id) ==
  CASE mode = "erase" -> eraseClick(w, features, latlng)
    [] mode = "marker" -> markerClick(w, latlng, id)
    [] mode = "polyline" -> polylineClick(w, latlng)
    [] mode = "polygon" -> polygonClick(w, latlng)
    [] mode = "rectangle" -> rectangleClick(w, latlng, id)
    [] mode = "circle" -> circleClick(w, latlng)
    [] OTHER -> w

\* A variant of handleMouseMove that keeps the first preview circle: the
\* radius is not recomputed on later moves.
handleMouseMove_firstRadius(w, mode, latlng) ==
  IF mode = "circle" /\ w.g.isDrawing /\ w.g.startPoint # Null
     /\ w.g.currentShape = Null
    THEN [w EXCEPT !.temp = @ + 1,
                   !.g.currentShape =
                      NewShape("circle", <<w.g.startPoint>>,
                               DistSq(w.g.startPoint, latlng))]
    ELSE w

handleMouseMove(w, mode, latlng) ==
  IF mode = "rectangle" /\ w.g.rectangleStep = 2 /\ Len(w.g.rectanglePoints) = 2
    THEN LET w1 == clearPreviewElements(w)
         IN  [w1 EXCEPT !.temp = @ + 2,
                        !.g.previewLine = w1.g.rectanglePoints,
                        !.g.previewRectangle =
                           calculateRectangleCorners(w1.g.rectanglePoints[1],
                                                     w1.g.rectanglePoints[2],
                                                     latlng)]
  ELSE IF ~w.g.isDrawing \/ w.g.startPoint = Null THEN w
  ELSE IF mode \in {"polyline", "polygon", "erase", "rectangle"} THEN w
  ELSE LET w1 == removeCurrentShape(w)
       IN  IF mode = "circle"
             THEN [w1 EXCEPT !.temp = @ + 1,
                             !.g.currentShape =
                                NewShape("circle", <<w1.g.startPoint>>,
                                         DistSq(w1.g.startPoint, latlng))]
             ELSE w1

\* A variant of handleDoubleClick whose polyline test is off by one
\* (polylinePoints.length > 2).
handleDoubleClick_offByOne(w, mode, id) ==
  IF mode = "polyline" /\ w.g.isDrawing /\ Len(w.g.polylinePoints) > 2
    THEN LET feature == createFeature(id, "polyline",
                                      MapSeq(w.g.polylinePoints, ToCoord), QZero)
             w1 == IF w.g.currentShape # Null THEN emitFeature(w, feature) ELSE w
         IN  [clearTempMarkers(w1) EXCEPT !.g.isDrawing = FALSE,
                                          !.g.polylinePoints = << >>]
  ELSE IF mode = "polygon" /\ w.g.isDrawing /\ Len(w.g.polygonPoints) >= 3
    THEN LET feature == createFeature(id, "polygon",
                                      <<MapSeq(w.g.polygonPoints, ToCoord)>>, QZero)
             w1 == IF w.g.currentShape # Null THEN emitFeature(w, feature) ELSE w
         IN  [clearTempMarkers(w1) EXCEPT !.g.isDrawing = FALSE,
                                          !.g.polygonPoints = << >>]
  ELSE w

handleDoubleClick(w, mode, id) ==
  IF mode = "polyline" /\ w.g.isDrawing /\ Len(w.g.polylinePoints) >= 2
    THEN LET feature == createFeature(id, "polyline",
                                      MapSeq(w.g.polylinePoints, ToCoord), QZero)
             w1 == IF w.g.currentShape # Null THEN emitFeature(w, feature) ELSE w
         IN  [clearTempMarkers(w1) EXCEPT !.g.isDrawing = FALSE,
                                          !.g.polylinePoints = << >>]
  ELSE IF mode = "polygon" /\ w.g.isDrawing /\ Len(w.g.polygonPoints) >= 3
    THEN LET feature == createFeature(id, "polygon",
                                      <<MapSeq(w.g.polygonPoints, ToCoord)>>, QZero)
             w1 == IF w.g.currentShape # Null THEN emitFeature(w, feature) ELSE w
         IN  [clearTempMarkers(w1) EXCEPT !.g.isDrawing = FALSE,
                                          !.g.polygonPoints = << >>]
  ELSE w

handleMapMouseUp(w, mode, id) ==
  IF ~w.g.isDrawing \/ w.g.startPoint = Null THEN w
  ELSE IF mode \in {"polyline", "polygon", "erase", "rectangle"} THEN w
  ELSE LET s == w.g.currentShape
           w1 == IF mode = "circle" /\ s # Null
                   THEN emitFeature(w, createFeature(id, "circle",
                                      <<ToCoord(s.latlngs[1])>>, s.radiusSq))
                   ELSE w
       IN  [clearTempMarkers(w1) EXCEPT !.g.isDrawing = FALSE,
                                        !.g.startPoint = Null]

\* A variant of handleKeyPress that leaves the shape being drawn on the map
\* (no map.removeLayer(currentShape)).
handleKeyPress_keepsShape(w) ==
  LET w1 == clearPreviewElements(clearTempMarkers(w))
  IN  [w1 EXCEPT !.g.isDrawing = FALSE,
                 !.g.polygonPoints = << >>,
                 !.g.polylinePoints = << >>,
                 !.g.rectanglePoints = << >>,
                 !.g.rectangleStep = 0,
                 !.g.startPoint = Null,
                 !.complete = TRUE]

\* handleKeyPress, e.key === 'Escape'
handleKeyPress(w) ==
  LET w1 == clearPreviewElements(clearTempMarkers(removeCurrentShape(w)))
  IN  [w1 EXCEPT !.g.isDrawing = FALSE,
                 !.g.polygonPoints = << >>,
                 !.g.polylinePoints = << >>,
                 !.g.rectanglePoints = << >>,
                 !.g.rectangleStep = 0,
                 !.g.startPoint = Null,
                 !.complete = TRUE]

\* A variant of the clean-up that takes currentShape off the map whether
\* or not a gesture is running (no isDrawing test).
effectCleanup_removesShape(w) ==
  clearPreviewElements(clearTempMarkers(
    IF w.g.currentShape # Null THEN removeCurrentShape(w) ELSE w))

\* A variant of the clean-up that leaves the unfinished shape on the map.
effectCleanup_keepsShape(w) ==
  clearPreviewElements(clearTempMarkers(w))

\* the function the effect returns: what it takes off the map
effectCleanup(w) ==
  clearPreviewElements(clearTempMarkers(
    IF w.g.currentShape # Null /\ w.g.isDrawing
      THEN removeCurrentShape(w) ELSE w))

\* ------------------------------------------------ MapPlayground handlers
\* The state MapPlayground keeps (useState), with the map it draws on.
Parent ==
  [ drawingMode |-> drawingMode,
    drawnFeatures |-> drawnFeatures,
    undoStack |-> undoStack,
    selectedFeature |-> selectedFeature,
    isAttributeFormOpen |-> isAttributeFormOpen,
    layers |-> mapLayers ]

Front(s) == SubSeq(s, 1, Len(s) - 1)

\* A variant of handleFeatureDrawn that puts the new feature first
\* ([feature, ...prev]).
handleFeatureDrawn_prepends(st, feature) ==
  [st EXCEPT !.drawnFeatures = <<feature>> \o @, !.undoStack = << >>]

handleFeatureDrawn(st, feature) ==
  [st EXCEPT !.drawnFeatures = Append(@, feature), !.undoStack = << >>]

handleFeatureDoubleClick(st, feature) ==
  [st EXCEPT !.selectedFeature = feature, !.isAttributeFormOpen = TRUE]

\* A variant of handleAttributeSave that merges the saved map into the
\* stored one ({...f.properties.attributes, ...attributes}).
handleAttributeSave_merges(st, attrs) ==
  IF st.selectedFeature # Null
    THEN [st EXCEPT !.drawnFeatures =
            [i \in 1..Len(@) |->
               IF @[i].id = st.selectedFeature.id
                 THEN [@[i] EXCEPT !.attributes =
                         {x \in @ : \A y \in attrs : y[1] # x[1]} \cup attrs]
                 ELSE @[i]]]
    ELSE st

handleAttributeSave(st, attrs) ==
  IF st.selectedFeature # Null
    THEN LET updatedFeature == [st.selectedFeature EXCEPT !.attributes = attrs]
         IN  [st EXCEPT !.drawnFeatures =
                [i \in 1..Len(@) |->
                   IF @[i].id = st.selectedFeature.id THEN updatedFeature ELSE @[i]]]
    ELSE st

handleEraseMode(st) ==
  [st EXCEPT !.drawingMode = IF @ = "erase" THEN "none" ELSE "erase"]

\* A variant of handleUndo that drops the oldest feature (prev.slice(1))
\* while recording the newest one.
handleUndo_dropsFirst(st) ==
  IF Len(st.drawnFeatures) = 0 THEN st
  ELSE LET lastFeature == st.drawnFeatures[Len(st.drawnFeatures)]
       IN  [st EXCEPT !.layers = @ \ {lastFeature.id},
                      !.undoStack = Append(@, lastFeature),
                      !.drawnFeatures = Tail(@)]

\* A variant of handleUndo that, on an empty store, takes the newest
\* feature back from the discard stack (a redo).
handleUndo_redoes(st) ==
  IF Len(st.drawnFeatures) = 0
    THEN IF Len(st.undoStack) = 0 THEN st
         ELSE LET f == st.undoStack[Len(st.undoStack)]
              IN  [st EXCEPT !.layers = @ \cup {f.id},
                             !.undoStack = Front(@),
                             !.drawnFeatures = <<f>>]
  ELSE LET lastFeature == st.drawnFeatures[Len(st.drawnFeatures)]
       IN  [st EXCEPT !.layers = @ \ {lastFeature.id},
                      !.undoStack = Append(@, lastFeature),
                      !.drawnFeatures = Front(@)]

handleUndo(st) ==
  IF Len(st.drawnFeatures) = 0 THEN st
  ELSE LET lastFeature == st.drawnFeatures[Len(st.drawnFeatures)]
       IN  [st EXCEPT !.layers = @ \ {lastFeature.id},
                      !.undoStack = Append(@, lastFeature),
                      !.drawnFeatures = Front(@)]

handleFeatureClick(st, feature) ==
  IF st.drawingMode = "erase"
    THEN LET keep(f) == f.id # feature.id
         IN  [st EXCEPT !.layers = @ \ {feature.id},
                        !.drawnFeatures = SelectSeq(@, keep),
                        !.undoStack = Append(@, feature)]
    ELSE st

\* onDrawingComplete={() => setDrawingMode('none')}
onDrawingComplete(st) == [st EXCEPT !.drawingMode = "none"]

\* AttributeForm onClose
onCloseAttributeForm(st) ==
  [st EXCEPT !.isAttributeFormOpen = FALSE, !.selectedFeature = Null]

\* The callbacks a DrawingTools handler called, applied in call order.
RECURSIVE ApplyDrawn(_, _)
ApplyDrawn(st, drawn) ==
  IF drawn = << >> THEN st
  ELSE ApplyDrawn(handleFeatureDrawn(st, Head(drawn)), Tail(drawn))

RECURSIVE ApplyClicked(_, _)
ApplyClicked(st, clicked) ==
  IF clicked = << >> THEN st
  ELSE ApplyClicked(handleFeatureClick(st, Head(clicked)), Tail(clicked))

ApplyCallbacks(st, w) ==
  LET s1 == ApplyClicked(ApplyDrawn([st EXCEPT !.layers = w.layers], w.drawn),
                         w.clicked)
  IN  IF w.complete THEN onDrawingComplete(s1) ELSE s1

\* Did the handler set any state of MapPlayground (which re-renders it)?
SetsParentState(w) == w.drawn # << >> \/ w.clicked # << >> \/ w.complete

\* ------------------------------------------------------- AttributeForm
Keys == {"name", "type"}
Vals == {"a", "b"}

\* the popup's buttons hold the feature object made by createFeature
\* (createPopupContent is called once, with that object)
popupFeature(f) == [f EXCEPT !.attributes = EmptyAttributes]

\* useEffect[feature, isOpen]: load the attributes of the feature handed in
loadAttributes(feature) == feature.attributes

\* {...prev, [key]: value}
handleAddAttribute(attrs, key, value) ==
  {x \in attrs : x[1] # key} \cup {<<key, value>>}

handleRemoveAttribute(attrs, key) == {x \in attrs : x[1] # key}

handleUpdateAttribute(attrs, key, value) ==
  {x \in attrs : x[1] # key} \cup {<<key, value>>}

\* handleSave: onSave(attributes); onClose()
handleSave(st, attrs) == onCloseAttributeForm(handleAttributeSave(st, attrs))

\* --------------------------------------------------------------- actions
drawVars ==
  <<drawingMode, drawnFeatures, undoStack, selectedFeature,
    isAttributeFormOpen, attributes, mapLayers, tempLayers,
    gesture, nextId, inputs, lastOp>>

\* what the drawing tools and the attribute form leave alone
nonDrawVars == <<camera, measure, gps, vector, photos, exporter>>

\* what the camera modal leaves alone
nonCamVars == <<drawVars, measure, gps, vector, photos, exporter>>

DrawInit ==
  /\ drawingMode = "none"
  /\ drawnFeatures = << >>
  /\ undoStack = << >>
  /\ selectedFeature = Null
  /\ isAttributeFormOpen = FALSE
  /\ attributes = EmptyAttributes
  /\ mapLayers = {}
  /\ tempLayers = 0
  /\ gesture = InitGesture
  /\ nextId = 1
  /\ inputs = 0
  /\ lastOp = [op |-> "init", n |-> 0]

\* MapPlayground re-rendered: every callback prop of DrawingTools is a new
\* function, so its effect is cleaned up and started again.
AfterRender(st, w) ==
  LET w2 == effectCleanup([w EXCEPT !.layers = st.layers])
  IN  [st |-> [st EXCEPT !.layers = w2.layers], g |-> InitGesture, temp |-> w2.temp]

SetParent(st) ==
  /\ drawingMode' = st.drawingMode
  /\ drawnFeatures' = st.drawnFeatures
  /\ undoStack' = st.undoStack
  /\ selectedFeature' = st.selectedFeature
  /\ isAttributeFormOpen' = st.isAttributeFormOpen
  /\ mapLayers' = st.layers

\* A DrawingTools handler ran and left w; then React does its part.
Commit(w) ==
  LET st == ApplyCallbacks(Parent, w)
      r == IF SetsParentState(w) THEN AfterRender(st, w)
           ELSE [st |-> st, g |-> w.g, temp |-> w.temp]
  IN  /\ SetParent(r.st)
      /\ gesture' = r.g
      /\ tempLayers' = r.temp
      /\ nextId' = nextId + Len(w.drawn)

\* A MapPlayground handler ran and left st, having set state.
CommitParent(st) ==
  LET r == AfterRender(st, World(gesture, tempLayers, mapLayers))
  IN  /\ SetParent(r.st)
      /\ gesture' = r.g
      /\ tempLayers' = r.temp

Now == World(gesture, tempLayers, mapLayers)

\* A variant of the render that shows DrawingTools whether or not a
\* measurement is running.
DrawingToolsRendered_always(isMeasuring) == TRUE

\* {!isMeasuring && <DrawingTools ... />}
DrawingToolsRendered(isMeasuring) == ~isMeasuring

\* the listeners the DrawingTools effect has on the map and the document:
\* none when the component is not rendered (the clean-up took them off) or
\* the mode is none (the effect returns at once)
DrawingListeners ==
  IF DrawingToolsRendered(measure.isMeasuring) /\ drawingMode # "none"
    THEN {"click", "mousemove", "dblclick", "mouseup", "keydown"}
    ELSE {}

\* map handlers are attached while a tool is active and DrawingTools is
\* rendered (!isMeasuring); the form covers the map
Attached == "click" \in DrawingListeners
Pointer == Attached /\ ~isAttributeFormOpen

\* vertices the running gesture has accumulated
Accumulated ==
  CASE drawingMode = "polyline" -> Len(gesture.polylinePoints)
    [] drawingMode = "polygon" -> Len(gesture.polygonPoints)
    [] drawingMode = "rectangle" -> Len(gesture.rectanglePoints)
    [] drawingMode = "circle" -> IF gesture.startPoint # Null THEN 1 ELSE 0
    [] OTHER -> 0

Click(latlng) ==
  /\ Pointer
  /\ drawingMode # "erase"
  /\ inputs < MaxInputs
  /\ Commit(handleMapClick(Now, drawingMode, drawnFeatures, latlng, nextId))
  /\ inputs' = inputs + 1
  /\ lastOp' = [op |-> "click", at |-> latlng, n |-> Accumulated]
  /\ UNCHANGED attributes
  /\ UNCHANGED nonDrawVars

EraseClick(latlng) ==
  /\ Pointer
  /\ drawingMode = "erase"
  /\ LET w == handleMapClick(Now, drawingMode, drawnFeatures, latlng, nextId)
     IN  /\ Commit(w)
         /\ lastOp' = [op |-> "eraseClick", at |-> latlng,
                        n |-> Cardinality(HitIndexes(drawnFeatures, mapLayers, latlng))]
  /\ UNCHANGED <<attributes, inputs>>
  /\ UNCHANGED nonDrawVars

\* a move that redraws a preview carries a coordinate: it counts as an input
MouseMove(latlng) ==
  /\ Pointer
  /\ LET w == handleMouseMove(Now, drawingMode, latlng)
     IN  /\ w.g # gesture => inputs < MaxInputs
         /\ inputs' = IF w.g # gesture THEN inputs + 1 ELSE inputs
         /\ Commit(w)
  /\ lastOp' = [op |-> "mousemove", at |-> latlng, n |-> Accumulated]
  /\ UNCHANGED attributes
  /\ UNCHANGED nonDrawVars

DoubleClick ==
  /\ Pointer
  /\ Commit(handleDoubleClick(Now, drawingMode, nextId))
  /\ lastOp' = [op |-> "dblclick", n |-> Accumulated]
  /\ UNCHANGED <<attributes, inputs>>
  /\ UNCHANGED nonDrawVars

MouseUp ==
  /\ Pointer
  /\ Commit(handleMapMouseUp(Now, drawingMode, nextId))
  /\ lastOp' = [op |-> "mouseup", n |-> Accumulated]
  /\ UNCHANGED <<attributes, inputs>>
  /\ UNCHANGED nonDrawVars

\* The pointer is pressed at from, moved to to and released there: no
\* handler listens for the press; the map reports the move (mousemove) and
\* the release (mouseup), and no click, the pointer having moved.
Drag(from, to) ==
  /\ Pointer
  /\ inputs < MaxInputs
  /\ LET w == handleMouseMove(Now, drawingMode, to)
     IN  Commit(handleMapMouseUp(w, drawingMode, nextId))
  /\ inputs' = inputs + 1
  /\ lastOp' = [op |-> "drag", from |-> from, to |-> to, n |-> Accumulated]
  /\ UNCHANGED attributes
  /\ UNCHANGED nonDrawVars

Escape ==
  /\ Attached
  /\ Commit(handleKeyPress(Now))
  /\ lastOp' = [op |-> "escape", n |-> Accumulated]
  /\ UNCHANGED <<attributes, inputs>>
  /\ UNCHANGED nonDrawVars

Tools == {"marker", "polyline", "polygon", "rectangle", "circle"}

\* a tool button: onDrawingModeChange(drawingMode === tool.mode ? 'none' : tool.mode)
SelectTool(mode) ==
  /\ CommitParent([Parent EXCEPT !.drawingMode =
                     IF drawingMode = mode THEN "none" ELSE mode])
  /\ lastOp' = [op |-> "selectTool", n |-> Accumulated]
  /\ UNCHANGED <<attributes, nextId, inputs>>
  /\ UNCHANGED nonDrawVars

EraseMode ==
  /\ CommitParent(handleEraseMode(Parent))
  /\ lastOp' = [op |-> "eraseMode", n |-> Accumulated]
  /\ UNCHANGED <<attributes, nextId, inputs>>
  /\ UNCHANGED nonDrawVars

\* the handler returns before setting any state when the store is empty
Undo ==
  /\ LET st == handleUndo(Parent)
     IN  IF st = Parent
           THEN UNCHANGED <<drawingMode, drawnFeatures, undoStack,
                            selectedFeature, isAttributeFormOpen, mapLayers,
                            gesture, tempLayers>>
           ELSE CommitParent(st)
  /\ lastOp' = [op |-> "undo", n |-> Len(drawnFeatures)]
  /\ UNCHANGED <<attributes, nextId, inputs>>
  /\ UNCHANGED nonDrawVars

\* the popup button of a feature whose layer is on the map
OpenAttributeForm(i) ==
  /\ ~isAttributeFormOpen
  /\ drawnFeatures[i].id \in mapLayers
  /\ LET feature == popupFeature(drawnFeatures[i])
     IN  /\ CommitParent(handleFeatureDoubleClick(Parent, feature))
         /\ attributes' = loadAttributes(feature)
  /\ lastOp' = [op |-> "openForm", n |-> i]
  /\ UNCHANGED <<nextId, inputs>>
  /\ UNCHANGED nonDrawVars

FormUnchanged ==
  UNCHANGED <<drawingMode, drawnFeatures, undoStack, selectedFeature,
              isAttributeFormOpen, mapLayers, tempLayers, gesture, nextId>>

AddAttribute(key, value) ==
  /\ isAttributeFormOpen
  /\ inputs < MaxInputs
  /\ attributes' = handleAddAttribute(attributes, key, value)
  /\ inputs' = inputs + 1
  /\ lastOp' = [op |-> "addAttribute", n |-> 0]
  /\ FormUnchanged
  /\ UNCHANGED nonDrawVars

RemoveAttribute(key) ==
  /\ isAttributeFormOpen
  /\ inputs < MaxInputs
  /\ \E x \in attributes : x[1] = key
  /\ attributes' = handleRemoveAttribute(attributes, key)
  /\ inputs' = inputs + 1
  /\ lastOp' = [op |-> "removeAttribute", n |-> 0]
  /\ FormUnchanged
  /\ UNCHANGED nonDrawVars

UpdateAttribute(key, value) ==
  /\ isAttributeFormOpen
  /\ inputs < MaxInputs
  /\ \E x \in attributes : x[1] = key
  /\ attributes' = handleUpdateAttribute(attributes, key, value)
  /\ inputs' = inputs + 1
  /\ lastOp' = [op |-> "updateAttribute", n |-> 0]
  /\ FormUnchanged
  /\ UNCHANGED nonDrawVars

Save ==
  /\ isAttributeFormOpen
  /\ CommitParent(handleSave(Parent, attributes))
  /\ LET same == {i \in 1..Len(drawnFeatures) :
                    drawnFeatures[i].id = selectedFeature.id}
     IN  lastOp' = [op |-> "save", n |-> Cardinality(same),
                    had |-> {drawnFeatures[i].attributes : i \in same}]
  /\ UNCHANGED <<attributes, nextId, inputs>>
  /\ UNCHANGED nonDrawVars

CloseAttributeForm ==
  /\ isAttributeFormOpen
  /\ CommitParent(onCloseAttributeForm(Parent))
  /\ lastOp' = [op |-> "closeForm", n |-> 0]
  /\ UNCHANGED <<attributes, nextId, inputs>>
  /\ UNCHANGED nonDrawVars

\* ------------------------------------------------------- CameraCapture
\* MapPlayground always renders CameraCapture and only changes its isOpen
\* prop, so the component stays mounted (mountedRef.current is true).
\* A stream is a number > 0; 0 stands for null.

\* What initializeCamera and the functions it calls read from the render
\* that made them.
Closure(c) == [rc |-> c.retryCount, facing |-> c.facingMode]

\* number of entries of constraintLevels
ConstraintLevels == 5

\* getConstraints: Math.min(retryCount, constraintLevels.length - 1)
getConstraints(cl) ==
  IF cl.rc < ConstraintLevels - 1 THEN cl.rc ELSE ConstraintLevels - 1

\* The state after the component mounted with isOpen = false.
InitCamera ==
  [ isOpen |-> FALSE,
    stream |-> 0,                \* useState
    videoReady |-> FALSE,
    error |-> FALSE,             \* error !== null
    isInitializing |-> FALSE,
    retryCount |-> 0,
    facingMode |-> "environment",
    keyBump |-> FALSE,           \* setVideoKey called since the last render
    streamRef |-> 0,             \* useRef
    depsOpen |-> <<FALSE, 0>>,   \* dependencies the effects last ran with
    depsFacing |-> <<"environment", FALSE, 0, FALSE>>,
    openTimer |-> Null,          \* the 200 ms timer of the open effect
    facingTimer |-> Null,        \* the 500 ms timer of the facing effect
    timers |-> << >>,            \* timers nothing clears (retry, Try Again)
    requests |-> << >>,          \* getUserMedia calls not yet settled
    setups |-> << >>,            \* setupVideoElement promises not yet settled
    live |-> {},                 \* streams with a track that is not stopped
    nextStream |-> 1,
    calls |-> 0,                 \* initializeCamera calls so far
    hasApi |-> TRUE,             \* navigator.mediaDevices.getUserMedia exists
    handled |-> "",              \* err.name of the last handleCameraError
    nHandled |-> 0,              \* handleCameraError calls so far
    scheduled |-> FALSE ]        \* the last handleCameraError set a retry timer

\* the <video> element is rendered in the last branch of the view only
Mounted(c) == c.isOpen /\ ~c.isInitializing /\ ~c.error

RemoveAt(s, i) == SubSeq(s, 1, i - 1) \o SubSeq(s, i + 1, Len(s))

\* cleanup, called by code of render r: stops the tracks of
\* streamRef.current and of the render's stream, resets the video element
\* videoRef.current and the state.
cleanup(c, r) ==
  [c EXCEPT !.live = (@ \ {c.streamRef}) \ {r.stream},
            !.streamRef = 0,
            !.setups = [i \in DOMAIN @ |->
                          IF @[i].onCurrent
                            THEN [@[i] EXCEPT !.intact = FALSE] ELSE @[i]],
            !.stream = 0,
            !.videoReady = FALSE,
            !.isInitializing = FALSE,
            !.error = FALSE]

\* useEffect(..., [isOpen, cleanup]), the body, run for render r
openEffect(c, r) ==
  IF r.isOpen
    THEN [c EXCEPT !.error = FALSE,
                   !.videoReady = FALSE,
                   !.retryCount = 0,
                   !.keyBump = TRUE,
                   !.openTimer = Closure(r)]
    ELSE cleanup(c, r)

\* useEffect(..., [facingMode, isOpen, stream, videoReady, cleanup]), the body.
\* Its cleanup() sets stream to null, so the next render runs the clean-up
\* of this effect, which clears the timer set here before it can fire.
facingEffect(c, r) ==
  IF r.isOpen /\ r.stream # 0 /\ r.videoReady
    THEN [cleanup(c, r) EXCEPT !.keyBump = TRUE, !.facingTimer = Closure(r)]
    ELSE c

\* React commits a render: a new key or a view without <video> replaces
\* the video element.
Render(c) ==
  [c EXCEPT !.setups = [i \in DOMAIN @ |->
                          IF c.keyBump \/ ~Mounted(c)
                            THEN [@[i] EXCEPT !.onCurrent = FALSE] ELSE @[i]],
            !.keyBump = FALSE]

\* cleanup is a new function whenever stream changed
DepsOpen(c) == <<c.isOpen, c.stream>>
DepsFacing(c) == <<c.facingMode, c.isOpen, c.stream, c.videoReady>>

\* Render, run the clean-ups and then the bodies of the effects whose
\* dependencies changed, and again until a render changes nothing.
RECURSIVE Settle(_)
Settle(c) ==
  LET r == Render(c)
      runOpen == DepsOpen(c) # c.depsOpen
      runFacing == DepsFacing(c) # c.depsFacing
      c1 == [r EXCEPT !.openTimer = IF runOpen THEN Null ELSE @,
                      !.facingTimer = IF runFacing THEN Null ELSE @,
                      !.depsOpen = DepsOpen(c),
                      !.depsFacing = DepsFacing(c)]
      c2 == IF runOpen THEN openEffect(c1, r) ELSE c1
      c3 == IF runFacing THEN facingEffect(c2, r) ELSE c2
  IN  IF runOpen \/ runFacing THEN Settle(c3) ELSE r

\* err.name of what getUserMedia rejects with; AbortError stands for the
\* names handleCameraError has no case for
ErrorNames ==
  {"NotAllowedError", "NotFoundError", "NotSupportedError",
   "NotReadableError", "OverconstrainedError", "AbortError"}

\* handleCameraError; name is err.name ("Error" for new Error(...)); the
\* retryCount it reads is the one of the render its closure is from
handleCameraError(c, cl, name) ==
  LET canRetry == CASE name \in {"NotAllowedError", "NotFoundError",
                                 "NotSupportedError"} -> FALSE
                    [] name \in {"NotReadableError",
                                 "OverconstrainedError"} -> TRUE
                    [] OTHER -> cl.rc < 3
      c1 == [c EXCEPT !.error = TRUE, !.handled = name, !.nHandled = @ + 1]
  IN  IF canRetry /\ cl.rc < 4
        THEN [c1 EXCEPT !.retryCount = @ + 1, !.timers = Append(@, cl),
                        !.scheduled = TRUE]
        ELSE [c1 EXCEPT !.scheduled = FALSE]

\* initializeCamera, the finally block
initializeDone(c) == [c EXCEPT !.isInitializing = FALSE]

\* initializeCamera, up to the await of getUserMedia; without
\* navigator.mediaDevices.getUserMedia it throws new Error(...) at once
initializeCamera(c, cl) ==
  LET c1 == [c EXCEPT !.isInitializing = TRUE,
                      !.error = FALSE,
                      !.videoReady = FALSE,
                      !.calls = @ + 1]
  IN  IF ~c.hasApi
        THEN initializeDone(handleCameraError(c1, cl, "Error"))
        ELSE [c1 EXCEPT !.requests =
                Append(@, [cl |-> cl, level |-> getConstraints(cl)])]

\* initializeCamera after getUserMedia gave a stream: keep it, then
\* setupVideoElement, which rejects at once without a video element
streamObtained(c, i) ==
  LET cl == c.requests[i].cl
      s == c.nextStream
      c1 == [c EXCEPT !.requests = RemoveAt(@, i),
                      !.live = @ \cup {s},
                      !.nextStream = @ + 1,
                      !.streamRef = s,
                      !.stream = s]
  IN  IF Mounted(c)
        THEN [c1 EXCEPT !.setups =
                Append(@, [stream |-> s, cl |-> cl,
                           onCurrent |-> TRUE, intact |-> TRUE])]
        ELSE initializeDone(handleCameraError(c1, cl, "Error"))

\* initializeCamera after getUserMedia failed
streamRefused(c, i, name) ==
  initializeDone(handleCameraError(
    [c EXCEPT !.requests = RemoveAt(@, i)], c.requests[i].cl, name))

\* setupVideoElement, resolveOnce (loadedmetadata / canplay)
videoResolved(c, j) ==
  initializeDone([c EXCEPT !.setups = RemoveAt(@, j), !.videoReady = TRUE])

\* setupVideoElement, rejectOnce or the 10 s timeout
videoRejected(c, j) ==
  initializeDone(handleCameraError(
    [c EXCEPT !.setups = RemoveAt(@, j)], c.setups[j].cl, "Error"))

switchCamera(c) ==
  [c EXCEPT !.facingMode = IF @ = "user" THEN "environment" ELSE "user"]

forceRetry(c) ==
  LET c1 == [c EXCEPT !.retryCount = 0, !.error = FALSE, !.keyBump = TRUE]
  IN  [cleanup(c1, c) EXCEPT !.timers = Append(@, Closure(c))]

\* ------------------------------------------------------ camera actions
CamInit == camera = InitCamera

\* a browser with or without the camera API
CamAnyInit == \E api \in BOOLEAN : camera = [InitCamera EXCEPT !.hasApi = api]

\* MapPlayground: setIsCameraOpen(true)
OpenCamera ==
  /\ ~camera.isOpen
  /\ camera' = Settle([camera EXCEPT !.isOpen = TRUE])
  /\ UNCHANGED nonCamVars

\* onClose: setIsCameraOpen(false)
CloseCamera ==
  /\ camera.isOpen
  /\ camera' = Settle([camera EXCEPT !.isOpen = FALSE])
  /\ UNCHANGED nonCamVars

\* runs in which no stream was obtained are followed further, every
\* attempt failing from then on
CanCall ==
  camera.calls < (IF camera.nextStream = 1 THEN MaxFailedCalls ELSE MaxCalls)

OpenTimer ==
  /\ camera.openTimer # Null
  /\ CanCall
  /\ camera' = Settle(initializeCamera([camera EXCEPT !.openTimer = Null],
                                       camera.openTimer))
  /\ UNCHANGED nonCamVars

\* a retry timer (2000 ms) or the timer of Try Again (1000 ms)
RetryTimer(i) ==
  /\ CanCall
  /\ camera' = Settle(initializeCamera([camera EXCEPT !.timers = RemoveAt(@, i)],
                                       camera.timers[i]))
  /\ UNCHANGED nonCamVars

GetUserMediaResolves(i) ==
  /\ camera.calls <= MaxCalls
  /\ camera' = Settle(streamObtained(camera, i))
  /\ UNCHANGED nonCamVars

GetUserMediaRejects(i, name) ==
  /\ camera' = Settle(streamRefused(camera, i, name))
  /\ UNCHANGED nonCamVars

\* the video element of the setup plays its stream
VideoCanPlay(j) ==
  /\ camera.setups[j].intact
  /\ camera.setups[j].stream \in camera.live
  /\ camera' = Settle(videoResolved(camera, j))
  /\ UNCHANGED nonCamVars

VideoFails(j) ==
  /\ camera' = Settle(videoRejected(camera, j))
  /\ UNCHANGED nonCamVars

\* the Switch Camera button is shown when videoReady
SwitchCamera ==
  /\ camera.isOpen /\ camera.videoReady
  /\ camera' = Settle(switchCamera(camera))
  /\ UNCHANGED nonCamVars

\* the Try Again button is in the error view
ForceRetry ==
  /\ camera.isOpen /\ ~camera.isInitializing /\ camera.error
  /\ camera' = Settle(forceRetry(camera))
  /\ UNCHANGED nonCamVars

CamNext ==
  \/ OpenCamera
  \/ CloseCamera
  \/ OpenTimer
  \/ \E i \in 1..Len(camera.timers) : RetryTimer(i)
  \/ \E i \in 1..Len(camera.requests) : GetUserMediaResolves(i)
  \/ \E i \in 1..Len(camera.requests), name \in ErrorNames :
       GetUserMediaRejects(i, name)
  \/ \E j \in 1..Len(camera.setups) : VideoCanPlay(j)
  \/ \E j \in 1..Len(camera.setups) : VideoFails(j)
  \/ SwitchCamera
  \/ ForceRetry

\* ------------------------------------------------------ MeasurementTools
\* The closure variables of the MeasurementTools effect, as it starts; the
\* layers it puts on the map are kept as counts and flags.
InitMeasurement ==
  [ isDrawing |-> FALSE,
    measurementPoints |-> << >>,
    tempMarkers |-> 0,
    measurementLine |-> FALSE,
    measurementPolygon |-> FALSE,
    measurementLabel |-> FALSE,
    previewLine |-> FALSE ]

\* What a MeasurementTools handler can touch: its closure variables, the
\* parent callbacks it calls (recorded, applied by the action) and timers.
MeasureWorld(c) ==
  [ c |-> c,
    completed |-> << >>,   \* onMeasurementComplete(result) calls
    cancelled |-> 0,       \* onCancel() calls
    timeouts |-> 0 ]       \* setTimeout(clearMeasurement, 100) calls

\* clearMeasurement: takes the layers off the map; the points and isDrawing
\* are not reset
clearMeasurement(c) ==
  [c EXCEPT !.tempMarkers = 0,
            !.measurementLine = FALSE,
            !.measurementPolygon = FALSE,
            !.measurementLabel = FALSE,
            !.previewLine = FALSE]

updateMeasurement(c, measurementType) ==
  IF Len(c.measurementPoints) < 2 THEN c
  ELSE IF measurementType = "distance"
    THEN [c EXCEPT !.measurementLine = TRUE, !.measurementLabel = TRUE]
  ELSE IF measurementType = "area" /\ Len(c.measurementPoints) >= 3
    THEN [c EXCEPT !.measurementPolygon = TRUE, !.measurementLabel = TRUE]
  ELSE c

updatePreview(c, measurementType) ==
  IF Len(c.measurementPoints) = 0 THEN c
  ELSE IF measurementType = "distance" THEN [c EXCEPT !.previewLine = TRUE]
  ELSE IF measurementType = "area" /\ Len(c.measurementPoints) >= 2
    THEN [c EXCEPT !.previewLine = TRUE]
  ELSE c

MT_handleMapClick(w, measurementType, latlng) ==
  LET c == w.c
  IN  IF measurementType = "distance"
        THEN LET c1 == [c EXCEPT !.measurementPoints = Append(@, latlng),
                                 !.tempMarkers = @ + 1]
                 c2 == updateMeasurement(c1, measurementType)
             IN  [w EXCEPT !.c = IF Len(c2.measurementPoints) = 1
                                   THEN [c2 EXCEPT !.isDrawing = TRUE] ELSE c2]
      ELSE IF measurementType = "area"
        THEN IF ~c.isDrawing
               THEN [w EXCEPT !.c = [c EXCEPT !.isDrawing = TRUE,
                                              !.measurementPoints = <<latlng>>,
                                              !.tempMarkers = @ + 1]]
               ELSE [w EXCEPT !.c = updateMeasurement(
                                      [c EXCEPT !.measurementPoints = Append(@, latlng),
                                                !.tempMarkers = @ + 1],
                                      measurementType)]
      ELSE w

MT_handleMouseMove(w, measurementType) ==
  IF w.c.isDrawing /\ Len(w.c.measurementPoints) > 0
    THEN [w EXCEPT !.c = updatePreview(w.c, measurementType)]
    ELSE w

\* the result handed to onMeasurementComplete: value and unit are computed
\* from these points (calculateDistance / calculateArea, then formatting)
MeasurementResult(type, points) == [type |-> type, of |-> points]

\* A variant of handleDoubleClick that also reports a distance of one point.
MT_handleDoubleClick_onePoint(w, measurementType) ==
  LET points == w.c.measurementPoints
      w1 == IF measurementType = "distance" /\ Len(points) >= 1
              THEN [w EXCEPT !.completed =
                              Append(@, MeasurementResult("distance", points))]
            ELSE IF measurementType = "area" /\ Len(points) >= 3
              THEN [w EXCEPT !.completed =
                              Append(@, MeasurementResult("area", points))]
            ELSE w
  IN  [w1 EXCEPT !.timeouts = @ + 1]

MT_handleDoubleClick(w, measurementType) ==
  LET points == w.c.measurementPoints
      w1 == IF measurementType = "distance" /\ Len(points) >= 2
              THEN [w EXCEPT !.completed =
                              Append(@, MeasurementResult("distance", points))]
            ELSE IF measurementType = "area" /\ Len(points) >= 3
              THEN [w EXCEPT !.completed =
                              Append(@, MeasurementResult("area", points))]
            ELSE w
  IN  [w1 EXCEPT !.timeouts = @ + 1]

\* handleKeyPress, e.key === 'Escape'
MT_handleKeyPress(w) ==
  [w EXCEPT !.c = clearMeasurement(w.c), !.cancelled = @ + 1]

\* the function the effect returns
MT_cleanup(w) == [w EXCEPT !.c = clearMeasurement(w.c)]

\* MapPlayground's measurement state
MeasureParent ==
  [ isMeasuring |-> measure.isMeasuring,
    measurementType |-> measure.measurementType,
    drawingMode |-> drawingMode ]

handleStartMeasurement(st, type) ==
  IF st.isMeasuring /\ st.measurementType = type
    THEN [st EXCEPT !.isMeasuring = FALSE, !.measurementType = Null]
    ELSE [st EXCEPT !.drawingMode = "none",
                    !.isMeasuring = TRUE,
                    !.measurementType = type]

handleMeasurementComplete(st, result) ==
  [st EXCEPT !.isMeasuring = FALSE, !.measurementType = Null]

handleMeasurementCancel(st) ==
  [st EXCEPT !.isMeasuring = FALSE, !.measurementType = Null]

RECURSIVE ApplyCompleted(_, _)
ApplyCompleted(st, completed) ==
  IF completed = << >> THEN st
  ELSE ApplyCompleted(handleMeasurementComplete(st, Head(completed)),
                      Tail(completed))

\* the parent callbacks a handler called, in the order it called them
ApplyMeasureCallbacks(st, w) ==
  LET st1 == ApplyCompleted(st, w.completed)
  IN  IF w.cancelled > 0 THEN handleMeasurementCancel(st1) ELSE st1

MeasureInit ==
  measure = [ isMeasuring |-> FALSE,
              measurementType |-> Null,
              c |-> InitMeasurement,
              timers |-> 0 ]

\* MapPlayground rendered with st: its callbacks are new functions, so the
\* MeasurementTools effect is cleaned up (the timers of the old closure
\* find nothing left to clear) and, while measuring, started again; when not
\* measuring the component is not rendered.
MeasureRendered(st) ==
  [ isMeasuring |-> st.isMeasuring,
    measurementType |-> st.measurementType,
    c |-> InitMeasurement,
    timers |-> 0 ]

\* A MeasurementTools handler ran and left w; then React does its part.
MeasureCommit(w) ==
  LET st == ApplyMeasureCallbacks(MeasureParent, w)
  IN  IF st # MeasureParent
        THEN /\ measure' = MeasureRendered(st)
             /\ CommitParent([Parent EXCEPT !.drawingMode = st.drawingMode])
        ELSE /\ measure' = [measure EXCEPT !.c = w.c,
                                           !.timers = @ + w.timeouts]
             /\ UNCHANGED <<drawingMode, drawnFeatures, undoStack,
                            selectedFeature, isAttributeFormOpen, mapLayers,
                            gesture, tempLayers>>

MeasureNow == MeasureWorld(measure.c)

\* what a handler of MeasurementTools reported to its parent
Reported(w) == Len(w.completed)

\* a measure button of the toolbar
StartMeasurement(type) ==
  /\ ~isAttributeFormOpen
  /\ LET st == handleStartMeasurement(MeasureParent, type)
         w == MT_cleanup(MeasureNow)
     IN  /\ measure' = MeasureRendered(st)
         /\ CommitParent([Parent EXCEPT !.drawingMode = st.drawingMode])
         /\ lastOp' = [op |-> "startMeasurement", type |-> type,
                        n |-> Len(measure.c.measurementPoints),
                        reported |-> Reported(w)]
  /\ UNCHANGED <<attributes, nextId, inputs, camera, gps, vector, photos, exporter>>

MeasureClick(latlng) ==
  /\ measure.isMeasuring
  /\ inputs < MaxInputs
  /\ LET w == MT_handleMapClick(MeasureNow, measure.measurementType, latlng)
     IN  /\ MeasureCommit(w)
         /\ lastOp' = [op |-> "measureClick", at |-> latlng,
                        n |-> Len(measure.c.measurementPoints),
                        reported |-> Reported(w)]
  /\ inputs' = inputs + 1
  /\ UNCHANGED <<attributes, nextId, camera, gps, vector, photos, exporter>>

MeasureMouseMove ==
  /\ measure.isMeasuring
  /\ LET w == MT_handleMouseMove(MeasureNow, measure.measurementType)
     IN  /\ MeasureCommit(w)
         /\ lastOp' = [op |-> "measureMove",
                        n |-> Len(measure.c.measurementPoints),
                        reported |-> Reported(w)]
  /\ UNCHANGED <<attributes, nextId, inputs, camera, gps, vector, photos, exporter>>

MeasureDoubleClick ==
  /\ measure.isMeasuring
  /\ measure.timers < MaxPending
  /\ LET w == MT_handleDoubleClick(MeasureNow, measure.measurementType)
     IN  /\ MeasureCommit(w)
         /\ lastOp' = [op |-> "measureDblclick",
                        n |-> Len(measure.c.measurementPoints),
                        reported |-> Reported(w)]
  /\ UNCHANGED <<attributes, nextId, inputs, camera, gps, vector, photos, exporter>>

\* setTimeout(() => clearMeasurement(), 100) of the running effect fires
ClearTimer ==
  /\ measure.timers > 0
  /\ measure' = [measure EXCEPT !.c = clearMeasurement(@), !.timers = @ - 1]
  /\ lastOp' = [op |-> "clearTimer",
                 n |-> Len(measure.c.measurementPoints), reported |-> 0]
  /\ UNCHANGED <<drawingMode, drawnFeatures, undoStack, selectedFeature,
                 isAttributeFormOpen, mapLayers, gesture, tempLayers,
                 attributes, nextId, inputs, camera, gps, vector, photos, exporter>>

MeasureEscape ==
  /\ measure.isMeasuring
  /\ LET w == MT_handleKeyPress(MeasureNow)
     IN  /\ MeasureCommit(w)
         /\ lastOp' = [op |-> "measureEscape",
                        n |-> Len(measure.c.measurementPoints),
                        reported |-> Reported(w)]
  /\ UNCHANGED <<attributes, nextId, inputs, camera, gps, vector, photos, exporter>>

MeasureTypes == {"distance", "area"}

\* {isMeasuring && <MeasurementTools isActive={isMeasuring} ... />}
MeasurementToolsRendered(isMeasuring) == isMeasuring

\* the listeners the MeasurementTools effect has on the map and the
\* document: none unless isActive and measurementType
MeasureListeners ==
  IF /\ MeasurementToolsRendered(measure.isMeasuring)
     /\ measure.isMeasuring
     /\ measure.measurementType \in MeasureTypes
    THEN {"click", "mousemove", "dblclick", "keydown"}
    ELSE {}

\* a tool button pressed while a measurement runs: setDrawingMode only;
\* MapPlayground renders again
SelectToolMeasuring(mode) ==
  /\ measure.isMeasuring
  /\ CommitParent([Parent EXCEPT !.drawingMode =
                     IF drawingMode = mode THEN "none" ELSE mode])
  /\ measure' = MeasureRendered(MeasureParent)
  /\ lastOp' = [op |-> "selectTool", n |-> Len(measure.c.measurementPoints)]
  /\ UNCHANGED <<attributes, nextId, inputs, camera, gps, vector, photos, exporter>>

MeasureNext ==
  \/ \E type \in MeasureTypes : StartMeasurement(type)
  \/ \E latlng \in Points : MeasureClick(latlng)
  \/ MeasureMouseMove
  \/ MeasureDoubleClick
  \/ ClearTimer
  \/ MeasureEscape
  \/ \E mode \in Tools : ~measure.isMeasuring /\ SelectTool(mode)

\* ------------------------------------------------------------ GPS tracking
\* MapPlayground as it mounts: tracking off, no fix, the effect has run
\* without registering a watch (watchId undefined, written 0).
InitGPS ==
  [ hasGeolocation |-> TRUE,   \* 'geolocation' in navigator
    isGPSTracking |-> FALSE,
    gpsPosition |-> Null,
    watchId |-> 0,             \* let watchId of the effect's last run
    watches |-> {},            \* watches registered with the browser
    nextWatch |-> 1,           \* ids the browser hands out are positive
    fixes |-> 0 ]              \* positions reported so far

\* A variant of the clean-up that does not clear the watch.
gpsCleanup_keepsWatch(g) == g

\* the function the GPS effect returns
gpsCleanup(g) ==
  IF g.watchId # 0 THEN [g EXCEPT !.watches = @ \ {g.watchId}] ELSE g

\* useEffect(..., [isGPSTracking, gpsPosition]): clean-up of the last run,
\* then the body
gpsEffect(g) ==
  LET g1 == gpsCleanup(g)
  IN  IF g1.isGPSTracking /\ g1.hasGeolocation
        THEN [g1 EXCEPT !.watchId = g1.nextWatch,
                        !.watches = @ \cup {g1.nextWatch},
                        !.nextWatch = @ + 1]
        ELSE [g1 EXCEPT !.watchId = 0]

handleToggleGPS(g) ==
  IF ~g.hasGeolocation THEN g
  ELSE [g EXCEPT !.isGPSTracking = ~@]

\* the success callback of watchPosition: a new position object
positionCallback(g, latlng) ==
  [g EXCEPT !.gpsPosition = [fix |-> g.fixes + 1, at |-> latlng],
            !.fixes = @ + 1]

\* the error callback of watchPosition
errorCallback(g) == [g EXCEPT !.isGPSTracking = FALSE]

GPSInit == gps = InitGPS

\* a browser with or without geolocation
GPSAnyInit ==
  \E has \in BOOLEAN : gps = [InitGPS EXCEPT !.hasGeolocation = has]

\* MapPlayground set state and rendered: its inline callbacks are new, so
\* the effects of DrawingTools and MeasurementTools start again
Rerendered ==
  /\ CommitParent(Parent)
  /\ measure' = MeasureRendered(MeasureParent)

\* a handler or callback left g; the effect runs if a dependency changed
GPSCommit(g) ==
  IF g = gps
    THEN UNCHANGED <<gps, drawingMode, drawnFeatures, undoStack,
                     selectedFeature, isAttributeFormOpen, mapLayers,
                     gesture, tempLayers, measure>>
    ELSE /\ gps' = IF <<g.isGPSTracking, g.gpsPosition>>
                        # <<gps.isGPSTracking, gps.gpsPosition>>
                     THEN gpsEffect(g) ELSE g
         /\ Rerendered

ToggleGPS ==
  /\ gps.nextWatch <= MaxWatches
  /\ GPSCommit(handleToggleGPS(gps))
  /\ lastOp' = [op |-> "toggleGPS", n |-> Cardinality(gps.watches)]
  /\ UNCHANGED <<attributes, nextId, inputs, camera, vector, photos, exporter>>

PositionUpdate(id, latlng) ==
  /\ id \in gps.watches
  /\ gps.nextWatch <= MaxWatches
  /\ GPSCommit(positionCallback(gps, latlng))
  /\ lastOp' = [op |-> "position", n |-> Cardinality(gps.watches)]
  /\ UNCHANGED <<attributes, nextId, inputs, camera, vector, photos, exporter>>

GPSError(id) ==
  /\ id \in gps.watches
  /\ GPSCommit(errorCallback(gps))
  /\ lastOp' = [op |-> "gpsError", n |-> Cardinality(gps.watches)]
  /\ UNCHANGED <<attributes, nextId, inputs, camera, vector, photos, exporter>>

GPSNext ==
  \/ ToggleGPS
  \/ \E id \in 1..MaxWatches, latlng \in Points : PositionUpdate(id, latlng)
  \/ \E id \in 1..MaxWatches : GPSError(id)

\* ------------------------------------------------------ VectorLayerManager
\* What a chosen file holds, by what JSON.parse and the type test make of it.
Contents ==
  {"not JSON",            \* JSON.parse throws
   "null",                \* parses to null: reading .type throws
   "no type",             \* a number, an array or an object without type
   "Topology",            \* an object of another type
   "FeatureCollection",
   "Feature"}

FileNames == {"roads.geojson", "notes"}

\* file.name.replace(/\.[^/.]+$/, '')
stripExtension(name) ==
  CASE name = "roads.geojson" -> "roads"
    [] OTHER -> name

\* JSON.parse(content): the value, or that it threw
parseJSON(content) ==
  CASE content = "not JSON" -> [threw |-> TRUE]
    [] content = "null" -> [threw |-> FALSE, isNull |-> TRUE]
    [] content = "no type" -> [threw |-> FALSE, isNull |-> FALSE,
                               type |-> "undefined"]
    [] OTHER -> [threw |-> FALSE, isNull |-> FALSE, type |-> content]

\* the try block of reader.onload: the layer it makes, or that it threw
parseLayer(file, id) ==
  LET geoJsonData == parseJSON(file.content)
  IN  IF geoJsonData.threw \/ geoJsonData.isNull THEN [threw |-> TRUE]
      ELSE IF geoJsonData.type = "undefined"
              \/ (geoJsonData.type # "FeatureCollection"
                  /\ geoJsonData.type # "Feature")
        THEN [threw |-> TRUE]
      ELSE [threw |-> FALSE,
            layer |-> [id |-> id,
                       name |-> stripExtension(file.name),
                       data |-> geoJsonData.type,
                       visible |-> TRUE]]

InitVector ==
  [ vectorLayers |-> << >>,   \* MapPlayground: useState
    reading |-> << >>,        \* FileReaders at work, each with the list
                              \* its handleFileUpload call was rendered with
    alerts |-> 0,             \* alert(...) calls so far
    uploads |-> 0 ]           \* files chosen so far

\* handleFileUpload, up to reader.readAsText(file)
handleFileUpload(v, file) ==
  [v EXCEPT !.reading = Append(@, [file |-> file, vectorLayers |-> v.vectorLayers]),
            !.uploads = @ + 1]

\* reader.onload of the i-th reader
readerOnload(v, i, id) ==
  LET r == v.reading[i]
      parsed == parseLayer(r.file, id)
      v1 == [v EXCEPT !.reading = RemoveAt(@, i)]
  IN  IF parsed.threw
        THEN [v1 EXCEPT !.alerts = @ + 1]
        ELSE [v1 EXCEPT !.vectorLayers = Append(r.vectorLayers, parsed.layer)]

toggleLayerVisibility(v, layerId) ==
  [v EXCEPT !.vectorLayers =
     [k \in DOMAIN @ |-> IF @[k].id = layerId
                           THEN [@[k] EXCEPT !.visible = ~@] ELSE @[k]]]

removeLayer(v, layerId) ==
  [v EXCEPT !.vectorLayers = SelectSeq(@, LAMBDA layer : layer.id # layerId)]

VectorInit == vector = InitVector

\* setVectorLayers re-renders MapPlayground when the list changed
VectorCommit(v) ==
  /\ vector' = v
  /\ IF v.vectorLayers # vector.vectorLayers
       THEN Rerendered
       ELSE UNCHANGED <<drawingMode, drawnFeatures, undoStack,
                        selectedFeature, isAttributeFormOpen, mapLayers,
                        gesture, tempLayers, measure>>

\* a file is chosen in the file input
FileUpload(file) ==
  /\ vector.uploads < MaxUploads
  /\ VectorCommit(handleFileUpload(vector, file))
  /\ lastOp' = [op |-> "fileUpload", n |-> Len(vector.vectorLayers)]
  /\ UNCHANGED <<attributes, nextId, inputs, camera, gps, photos, exporter>>

\* a FileReader finished reading; Date.now() gives the id
FileLoaded(i) ==
  /\ VectorCommit(readerOnload(vector, i, nextId))
  /\ nextId' = nextId + 1
  /\ lastOp' = [op |-> "fileLoaded", file |-> vector.reading[i].file,
                 n |-> Len(vector.vectorLayers)]
  /\ UNCHANGED <<attributes, inputs, camera, gps, photos, exporter>>

ToggleLayerVisibility(k) ==
  /\ VectorCommit(toggleLayerVisibility(vector, vector.vectorLayers[k].id))
  /\ lastOp' = [op |-> "toggleLayer", n |-> k]
  /\ UNCHANGED <<attributes, nextId, inputs, camera, gps, photos, exporter>>

RemoveLayer(k) ==
  /\ VectorCommit(removeLayer(vector, vector.vectorLayers[k].id))
  /\ lastOp' = [op |-> "removeLayer", n |-> k]
  /\ UNCHANGED <<attributes, nextId, inputs, camera, gps, photos, exporter>>

VectorNext ==
  \/ \E name \in FileNames, content \in Contents :
       FileUpload([name |-> name, content |-> content])
  \/ \E i \in 1..Len(vector.reading) : FileLoaded(i)
  \/ \E k \in 1..Len(vector.vectorLayers) : ToggleLayerVisibility(k)
  \/ \E k \in 1..Len(vector.vectorLayers) : RemoveLayer(k)

\* --------------------------------------------------------- field photos
\* featureId || null: a photo that belongs to no feature
NoFeature == 0

\* the data URLs the canvas can produce
Images == {"jpeg"}

InitPhotos ==
  [ fieldPhotos |-> << >>,               \* MapPlayground useState
    cameraLinkedFeatureId |-> NoFeature, \* MapPlayground useState
    capturedImage |-> "" ]               \* CameraCapture useState, "" for null

\* setIsCameraOpen(true) is the camera's part of the handler
handleTakePhoto(p, featureId) ==
  [p EXCEPT !.cameraLinkedFeatureId = featureId]

\* A variant of handlePhotoTaken that keeps the new photo only
\* (setFieldPhotos([newPhoto])).
handlePhotoTaken_replaces(p, photoData, id) ==
  LET newPhoto ==
        [ id |-> id,
          imageUrl |-> photoData.imageUrl,
          featureId |-> IF p.cameraLinkedFeatureId # NoFeature
                          THEN p.cameraLinkedFeatureId
                          ELSE photoData.featureId ]
  IN  [p EXCEPT !.fieldPhotos = <<newPhoto>>,
                !.cameraLinkedFeatureId = NoFeature]

handlePhotoTaken(p, photoData, id) ==
  LET newPhoto ==
        [ id |-> id,
          imageUrl |-> photoData.imageUrl,
          featureId |-> IF p.cameraLinkedFeatureId # NoFeature
                          THEN p.cameraLinkedFeatureId
                          ELSE photoData.featureId ]
  IN  [p EXCEPT !.fieldPhotos = Append(@, newPhoto),
                !.cameraLinkedFeatureId = NoFeature]

\* the onClose prop of CameraCapture; setIsCameraOpen(false) is the
\* camera's part
onCloseCamera(p) == [p EXCEPT !.cameraLinkedFeatureId = NoFeature]

\* CameraCapture.savePhoto: onPhotoTaken(photoData), then onClose()
savePhoto(p, id) ==
  LET photoData == [ imageUrl |-> p.capturedImage,
                     featureId |-> p.cameraLinkedFeatureId ]
  IN  onCloseCamera(handlePhotoTaken(p, photoData, id))

PhotoInit == photos = InitPhotos

\* features whose popup is on the map
PopupIds ==
  {drawnFeatures[i].id : i \in {k \in 1..Len(drawnFeatures) :
                                  drawnFeatures[k].id \in mapLayers}}

\* handleTakePhoto called: by the camera button of the toolbar (NoFeature)
\* or by handleCameraForFeature; the open effect of CameraCapture clears
\* the captured image
TakePhoto(featureId) ==
  /\ ~camera.isOpen /\ ~isAttributeFormOpen
  /\ photos' = [handleTakePhoto(photos, featureId) EXCEPT !.capturedImage = ""]
  /\ camera' = Settle([camera EXCEPT !.isOpen = TRUE])
  /\ Rerendered
  /\ lastOp' = [op |-> "takePhoto", n |-> featureId]
  /\ UNCHANGED <<attributes, nextId, inputs, gps, vector, exporter>>

\* the capture button is shown when videoReady and nothing is captured
CapturePhoto(image) ==
  /\ camera.isOpen /\ camera.videoReady
  /\ photos.capturedImage = ""
  /\ photos' = [photos EXCEPT !.capturedImage = image]
  /\ lastOp' = [op |-> "capturePhoto", n |-> 0]
  /\ UNCHANGED <<drawingMode, drawnFeatures, undoStack, selectedFeature,
                 isAttributeFormOpen, attributes, mapLayers, tempLayers,
                 gesture, nextId, inputs, camera, measure, gps, vector, exporter>>

\* the Save button of the captured-image view
SavePhoto ==
  /\ camera.isOpen
  /\ photos.capturedImage # ""
  /\ photos' = savePhoto(photos, nextId)
  /\ camera' = Settle([camera EXCEPT !.isOpen = FALSE])
  /\ Rerendered
  /\ nextId' = nextId + 1
  /\ lastOp' = [op |-> "savePhoto", n |-> Len(photos.fieldPhotos)]
  /\ UNCHANGED <<attributes, inputs, gps, vector, exporter>>

\* the close button of the camera modal
CancelCamera ==
  /\ camera.isOpen
  /\ photos' = onCloseCamera(photos)
  /\ camera' = Settle([camera EXCEPT !.isOpen = FALSE])
  /\ Rerendered
  /\ lastOp' = [op |-> "cancelCamera", n |-> 0]
  /\ UNCHANGED <<attributes, nextId, inputs, gps, vector, exporter>>

\* The window listeners of the relay from a popup's camera button to
\* MapPlayground: handleCameraEvent is added by the main effect of
\* DrawingTools, after its early return, with the map listeners;
\* handleOpenCameraForFeature by the second effect of DrawingTools, while
\* the component is rendered; handleCameraForFeature by MapPlayground.
WindowListeners ==
  (IF DrawingListeners # {} THEN {"takePhotoForFeature"} ELSE {})
  \cup (IF DrawingToolsRendered(measure.isMeasuring)
          THEN {"openCameraForFeature"} ELSE {})
  \cup {"triggerCameraForFeature"}

\* window.dispatchEvent(new CustomEvent(type)): what the listeners make of
\* it; an event without a listener is dropped
RECURSIVE dispatchEvent(_, _)
dispatchEvent(type, listeners) ==
  IF type \notin listeners THEN "dropped"
  ELSE IF type = "takePhotoForFeature"
    THEN dispatchEvent("openCameraForFeature", listeners)
  ELSE IF type = "openCameraForFeature"
    THEN dispatchEvent("triggerCameraForFeature", listeners)
  ELSE "handleTakePhoto"

\* the camera button in the popup of a stored feature
PopupCameraButton(featureId) ==
  /\ featureId \in PopupIds
  /\ ~camera.isOpen /\ ~isAttributeFormOpen
  /\ IF dispatchEvent("takePhotoForFeature", WindowListeners) = "handleTakePhoto"
       THEN /\ photos' = [handleTakePhoto(photos, featureId)
                            EXCEPT !.capturedImage = ""]
            /\ camera' = Settle([camera EXCEPT !.isOpen = TRUE])
            /\ Rerendered
       ELSE UNCHANGED <<photos, camera, measure, drawingMode, drawnFeatures,
                        undoStack, selectedFeature, isAttributeFormOpen,
                        mapLayers, tempLayers, gesture>>
  /\ lastOp' = [op |-> "popupCamera", n |-> featureId]
  /\ UNCHANGED <<attributes, nextId, inputs, gps, vector, exporter>>

\* --------------------------------------------------------- DataExporter
\* Text is a sequence of pieces: the three characters CSV gives a meaning
\* to, and pieces of text that hold none of them.
Comma == ","
Quote == "\""
Newline == "\n"
BOM == "\\uFEFF"

\* attribute keys as the form stores them (key.trim()), in the order of
\* Array.sort; attribute values
ExportKeys == << <<"name">>, <<"site", Comma, "zone">> >>
ExportVals == { <<"a">>, <<"b", Comma, "c">> }

\* a DrawnFeature as the exporter reads it: coordinates as the text of
\* each pair (`${coord[0]} ${coord[1]}`), "" for a property that is undefined
ExportFeature(id, type, coordinates, area, distance, radius, attrs) ==
  [ id |-> id, type |-> type, coordinates |-> coordinates,
    area |-> area, distance |-> distance, radius |-> radius,
    attributes |-> attrs ]

RECURSIVE join(_, _)
join(parts, sep) ==
  IF parts = << >> THEN << >>
  ELSE IF Len(parts) = 1 THEN parts[1]
  ELSE parts[1] \o sep \o join(Tail(parts), sep)

formatCoordinates(feature) ==
  IF feature.type = "marker"
    THEN <<Quote, "POINT(", feature.coordinates[1], ")", Quote>>
  ELSE IF feature.type = "polyline"
    THEN <<Quote, "LINESTRING(">>
         \o join([i \in 1..Len(feature.coordinates) |-> <<feature.coordinates[i]>>],
                 <<Comma, " ">>)
         \o <<")", Quote>>
  ELSE IF feature.type = "circle"
    THEN <<Quote, "POINT(", feature.coordinates[1], ")", Quote, " BUFFER ",
           IF feature.radius # "" THEN feature.radius ELSE "100">>
  ELSE <<Quote, "POLYGON((">>
       \o join([i \in 1..Len(feature.coordinates) |-> <<feature.coordinates[i]>>],
               <<Comma, " ">>)
       \o <<"))", Quote>>

getAllAttributeKeys(features) ==
  LET keys == UNION {{x[1] : x \in features[i].attributes} : i \in 1..Len(features)}
  IN  SelectSeq(ExportKeys, LAMBDA key : key \in keys)

\* feature.properties.attributes?.[key] || ''
attributeValue(feature, key) ==
  IF \E x \in feature.attributes : x[1] = key
    THEN (CHOOSE x \in feature.attributes : x[1] = key)[2]
    ELSE << >>

\* value.toFixed(2) || ''
toFixed(value) == IF value = "" THEN << >> ELSE <<value, ".00">>

Opt(flag, columns) == IF flag THEN columns ELSE << >>

RECURSIVE doubleQuotes(_)
doubleQuotes(value) ==
  IF value = << >> THEN << >>
  ELSE (IF Head(value) = Quote THEN <<Quote, Quote>> ELSE <<Head(value)>>)
       \o doubleQuotes(Tail(value))

\* the escaping of a row value
escapeValue(value) ==
  IF \E i \in 1..Len(value) : value[i] \in {Comma, Quote, Newline}
    THEN <<Quote>> \o doubleQuotes(value) \o <<Quote>>
    ELSE value

csvHeaders(features, includeGeometry, includeAttributes) ==
  LET hasArea == \E i \in 1..Len(features) : features[i].area # ""
      hasDistance == \E i \in 1..Len(features) : features[i].distance # ""
      hasRadius == \E i \in 1..Len(features) : features[i].radius # ""
  IN  << <<"id">>, <<"feature_type">>, <<"created_date">>, <<"created_time">> >>
      \o Opt(includeGeometry, << <<"geometry_wkt">> >>)
      \o Opt(hasArea, << <<"area_m2">> >>)
      \o Opt(hasDistance, << <<"length_m">> >>)
      \o Opt(hasRadius, << <<"radius_m">> >>)
      \o Opt(includeAttributes, getAllAttributeKeys(features))

csvRow(features, feature, includeGeometry, includeAttributes) ==
  LET hasArea == \E i \in 1..Len(features) : features[i].area # ""
      hasDistance == \E i \in 1..Len(features) : features[i].distance # ""
      hasRadius == \E i \in 1..Len(features) : features[i].radius # ""
      attributeKeys == getAllAttributeKeys(features)
      row == << <<feature.id>>, <<feature.type>>, <<"date">>, <<"time">> >>
             \o Opt(includeGeometry, <<formatCoordinates(feature)>>)
             \o Opt(hasArea, <<toFixed(feature.area)>>)
             \o Opt(hasDistance, <<toFixed(feature.distance)>>)
             \o Opt(hasRadius, <<toFixed(feature.radius)>>)
             \o Opt(includeAttributes,
                    [k \in 1..Len(attributeKeys) |->
                       attributeValue(feature, attributeKeys[k])])
  IN  [k \in 1..Len(row) |-> escapeValue(row[k])]

generateCSV(features, includeGeometry, includeAttributes) ==
  IF features = << >> THEN << >>
  ELSE LET headers == csvHeaders(features, includeGeometry, includeAttributes)
           rows == [i \in 1..Len(features) |->
                      csvRow(features, features[i], includeGeometry,
                             includeAttributes)]
           lines == <<join(headers, <<Comma>>)>>
                    \o [i \in 1..Len(rows) |-> join(rows[i], <<Comma>>)]
       IN  <<BOM>> \o join(lines, <<Newline>>)

\* the three families of getFeaturesByType
Family(type) ==
  IF type = "marker" THEN "point"
  ELSE IF type = "polyline" THEN "line" ELSE "polygon"

getFeaturesByType(features) ==
  [family \in {"point", "line", "polygon"} |->
     SelectSeq(features, LAMBDA f : Family(f.type) = family)]

\* a file the browser was given to download, with the options it was made
\* under
Download(e, features) ==
  [ csv |-> generateCSV(features, e.includeGeometry, e.includeAttributes),
    features |-> features,
    includeGeometry |-> e.includeGeometry,
    includeAttributes |-> e.includeAttributes ]

\* one file for each family that has features; then onClose()
handleExport(e) ==
  LET grouped == getFeaturesByType(e.drawnFeatures)
      families == SelectSeq(<<"point", "line", "polygon">>,
                            LAMBDA family : grouped[family] # << >>)
  IN  [e EXCEPT !.files = [k \in 1..Len(families) |->
                             Download(e, grouped[families[k]])],
                !.isOpen = FALSE]

\* every type is selected (the initial selectedTypes)
handleExportAll(e) ==
  IF e.drawnFeatures = << >> THEN e
  ELSE [e EXCEPT !.files = <<Download(e, e.drawnFeatures)>>, !.isOpen = FALSE]

InitExporter ==
  [ drawnFeatures |-> << >>,     \* prop
    isOpen |-> FALSE,            \* prop
    includeGeometry |-> TRUE,    \* useState
    includeAttributes |-> TRUE,  \* useState
    files |-> << >> ]            \* the downloads of the last export

ExportInit == exporter = InitExporter

\* the features a session can have drawn and given attributes to
ExportPoint1 ==
  ExportFeature("1", "marker", <<"100.5 13.7">>, "", "", "",
                {<< <<"name">>, <<"a">> >>})
ExportPoint2 ==
  ExportFeature("2", "marker", <<"100.6 13.8">>, "", "", "",
                {<< <<"site", Comma, "zone">>, <<"b", Comma, "c">> >>})
ExportLine ==
  ExportFeature("3", "polyline", <<"0 0", "0 1">>, "", "1000", "", {})
ExportCircle ==
  ExportFeature("4", "circle", <<"1 0">>, "3141", "", "1000",
                {<< <<"name">>, <<"b", Comma, "c">> >>})
ExportPolygon ==
  ExportFeature("5", "polygon", <<"0 0", "0 1", "1 0", "0 0">>, "5000", "", "", {})

ExportStores ==
  LET all == <<ExportPoint1, ExportPoint2, ExportLine, ExportCircle, ExportPolygon>>
  IN  { SelectSeq(all, LAMBDA f : f.id \in ids) :
          ids \in SUBSET {"1", "2", "3", "4", "5"} }

\* the exporter of a session with any of these Feature Stores
ExportAnyInit ==
  \E store \in ExportStores : exporter = [InitExporter EXCEPT !.drawnFeatures = store]

ExportFrame ==
  UNCHANGED <<drawingMode, drawnFeatures, undoStack, selectedFeature,
              isAttributeFormOpen, attributes, mapLayers, tempLayers,
              gesture, nextId, inputs, camera, measure, gps, vector, photos>>

OpenExporter ==
  /\ ~exporter.isOpen
  /\ exporter' = [exporter EXCEPT !.isOpen = TRUE]
  /\ lastOp' = [op |-> "openExporter", n |-> 0]
  /\ ExportFrame

ToggleGeometry ==
  /\ exporter.isOpen
  /\ exporter' = [exporter EXCEPT !.includeGeometry = ~@]
  /\ lastOp' = [op |-> "toggleGeometry", n |-> 0]
  /\ ExportFrame

ToggleAttributes ==
  /\ exporter.isOpen
  /\ exporter' = [exporter EXCEPT !.includeAttributes = ~@]
  /\ lastOp' = [op |-> "toggleAttributes", n |-> 0]
  /\ ExportFrame

Export ==
  /\ exporter.isOpen
  /\ exporter' = handleExport(exporter)
  /\ lastOp' = [op |-> "export", n |-> Len(exporter'.files)]
  /\ ExportFrame

ExportAll ==
  /\ exporter.isOpen
  /\ exporter.drawnFeatures # << >>
  /\ exporter' = handleExportAll(exporter)
  /\ lastOp' = [op |-> "exportAll", n |-> 1]
  /\ ExportFrame

ExportNext ==
  \/ OpenExporter
  \/ ToggleGeometry
  \/ ToggleAttributes
  \/ Export
  \/ ExportAll

\* ------------------------------------------------------ specifications
\* The map, the toolbar and the Feature Store.
DrawNext ==
  \/ \E latlng \in Points : Click(latlng)
  \/ \E latlng \in Points : EraseClick(latlng)
  \/ \E latlng \in Points : MouseMove(latlng)
  \/ DoubleClick
  \/ MouseUp
  \/ Escape
  \/ \E mode \in Tools : SelectTool(mode)
  \/ EraseMode
  \/ Undo

\* The attribute form.
FormNext ==
  \/ \E i \in 1..Len(drawnFeatures) : OpenAttributeForm(i)
  \/ \E key \in Keys, value \in Vals : AddAttribute(key, value)
  \/ \E key \in Keys : RemoveAttribute(key)
  \/ \E key \in Keys, value \in Vals : UpdateAttribute(key, value)
  \/ Save
  \/ CloseAttributeForm

vars == <<drawVars, camera, measure, gps, vector, photos, exporter>>

Init == DrawInit /\ CamInit /\ MeasureInit /\ GPSInit /\ VectorInit /\ PhotoInit /\ ExportInit
Next == DrawNext

\* drawing, erasing and undoing, the attribute form staying closed
Spec == Init /\ [][Next]_vars

\* The attribute form, over a store filled with the marker tool and
\* emptied by undo and erase.
MarkerNext ==
  \/ SelectTool("marker")
  \/ \E latlng \in Points : Click(latlng)
  \/ \E latlng \in Points : EraseClick(latlng)
  \/ Escape
  \/ EraseMode
  \/ Undo

\* The circle tool alone, with pointer sequences that press, move and
\* release.
CircleNext ==
  \/ SelectTool("circle")
  \/ \E latlng \in Points : Click(latlng)
  \/ \E latlng \in Points : MouseMove(latlng)
  \/ MouseUp
  \/ \E from \in Points, to \in Points : Drag(from, to)
  \/ Escape
  \/ Undo

CircleSpec == Init /\ [][CircleNext]_vars

\* The measurement overlay, started from any tool.
MeasureSpec == Init /\ [][MeasureNext]_vars

FormSpecNext == MarkerNext \/ FormNext
FormSpec == Init /\ [][FormSpecNext]_vars

\* every handler together
AppNext == DrawNext \/ FormNext
AppSpec == Init /\ [][AppNext]_vars

\* the camera modal
\* One opening of the modal in which every attempt to get the camera fails
\* with an error the code retries after.
RetryNext ==
  \/ OpenCamera
  \/ CloseCamera
  \/ OpenTimer
  \/ \E i \in 1..Len(camera.timers) : RetryTimer(i)
  \/ \E i \in 1..Len(camera.requests),
        name \in {"NotReadableError", "OverconstrainedError"} :
       GetUserMediaRejects(i, name)
  \/ ForceRetry

RetrySpec == Init /\ [][RetryNext]_vars

\* Openings of the modal in which every attempt fails with an error the
\* code retries after, and Try Again is never pressed.
RelaxNext ==
  \/ OpenCamera
  \/ CloseCamera
  \/ OpenTimer
  \/ \E i \in 1..Len(camera.timers) : RetryTimer(i)
  \/ \E i \in 1..Len(camera.requests),
        name \in {"NotReadableError", "OverconstrainedError"} :
       GetUserMediaRejects(i, name)

RelaxSpec == Init /\ [][RelaxNext]_vars

\* The toolbar with both kinds of tool: any order of tool and measure
\* buttons, with clicks on the map in between.
ToolNext ==
  \/ \E type \in MeasureTypes : StartMeasurement(type)
  \/ \E mode \in Tools : ~measure.isMeasuring /\ SelectTool(mode)
  \/ \E mode \in Tools : SelectToolMeasuring(mode)
  \/ \E latlng \in Points : MeasureClick(latlng)
  \/ MeasureDoubleClick
  \/ ClearTimer
  \/ MeasureEscape
  \/ \E latlng \in Points : Click(latlng)
  \/ Escape

ToolSpec == Init /\ [][ToolNext]_vars

\* GPS tracking: toggles, fixes and errors
GPSSpecInit == DrawInit /\ CamInit /\ MeasureInit /\ GPSAnyInit /\ VectorInit /\ PhotoInit /\ ExportInit
GPSSpec == GPSSpecInit /\ [][GPSNext]_vars

\* the vector layer list and the files read into it
VectorSpec == Init /\ [][VectorNext]_vars

\* Markers, the eraser, undo and the camera: the map is under the camera
\* modal (fixed inset-0) while the camera is open.
\* where the markers of this specification are put
PhotoPoint == LatLng(QInt(0), QInt(0))

PhotoNext ==
  \/ ~camera.isOpen /\ SelectTool("marker")
  \/ ~camera.isOpen /\ Click(PhotoPoint)
  \/ ~camera.isOpen /\ EraseMode
  \/ ~camera.isOpen /\ EraseClick(PhotoPoint)
  \/ ~camera.isOpen /\ Undo
  \/ TakePhoto(NoFeature)
  \/ \E featureId \in PopupIds : PopupCameraButton(featureId)
  \/ OpenTimer
  \/ \E i \in 1..Len(camera.requests) : GetUserMediaResolves(i)
  \/ \E j \in 1..Len(camera.setups) : VideoCanPlay(j)
  \/ \E image \in Images : CapturePhoto(image)
  \/ SavePhoto
  \/ CancelCamera
PhotoSpec == Init /\ [][PhotoNext]_vars

\* The export dialog over any Feature Store.
ExportSpecInit ==
  DrawInit /\ CamInit /\ MeasureInit /\ GPSInit /\ VectorInit /\ PhotoInit
  /\ ExportAnyInit
ExportSpec == ExportSpecInit /\ [][ExportNext]_vars

\* Drawing and measuring while GPS tracking delivers fixes.
TrackNext ==
  \/ ToggleGPS
  \/ \E id \in 1..MaxWatches : PositionUpdate(id, PhotoPoint)
  \/ \E mode \in Tools : ~measure.isMeasuring /\ SelectTool(mode)
  \/ \E latlng \in Points : Click(latlng)
  \/ \E type \in MeasureTypes : StartMeasurement(type)
  \/ \E latlng \in Points : MeasureClick(latlng)

TrackSpec == Init /\ [][TrackNext]_vars

CamSpecInit == DrawInit /\ CamAnyInit /\ MeasureInit /\ GPSInit /\ VectorInit /\ PhotoInit /\ ExportInit
CamSpec == CamSpecInit /\ [][CamNext]_vars

TypeOK ==
  /\ drawingMode \in Tools \cup {"none", "erase"}
  /\ tempLayers \in 0..(MaxInputs + 3)
  /\ nextId \in 1..(MaxInputs + 1)

\* ================================================================ claims
Accumulating == {"polyline", "polygon", "rectangle", "circle"}

Ids(features) == {features[i].id : i \in 1..Len(features)}

\* the handler of this step emitted a feature
Emitted == nextId' # nextId

\* this step added exactly the feature made now, at the end
AppendedOne ==
  /\ nextId' = nextId + 1
  /\ Len(drawnFeatures') = Len(drawnFeatures) + 1
  /\ SubSeq(drawnFeatures', 1, Len(drawnFeatures)) = drawnFeatures
  /\ drawnFeatures'[Len(drawnFeatures')].id = nextId

NewFeature == drawnFeatures'[Len(drawnFeatures')]

\* features with position i taken out
Without(features, i) ==
  [j \in 1..(Len(features) - 1) |->
     IF j < i THEN features[j] ELSE features[j + 1]]

\* C2 (as the code has it): Escape during a polyline, polygon, rectangle or
\* circle gesture discards the accumulated points and every temporary
\* visual, emits no feature, leaves the Feature Store and the discard stack
\* unchanged, and ends the tool: the drawing mode becomes none.
C2_EscapeDiscardsAndEndsTool ==
  [][ (lastOp'.op = "escape" /\ drawingMode \in Accumulating /\ Accumulated > 0)
      => /\ gesture' = InitGesture
         /\ tempLayers' = 0
         /\ ~Emitted
         /\ UNCHANGED <<drawnFeatures, undoStack, mapLayers>>
         /\ drawingMode' = "none" ]_vars

\* C2 as stated: the same, but the drawing mode is left unchanged.
C2_EscapeKeepsMode ==
  [][ (lastOp'.op = "escape" /\ drawingMode \in Accumulating /\ Accumulated > 0)
      => /\ gesture' = InitGesture
         /\ tempLayers' = 0
         /\ ~Emitted
         /\ UNCHANGED <<drawnFeatures, undoStack, mapLayers>>
         /\ drawingMode' = drawingMode ]_vars

\* Escape has just ended a gesture that had two points
C2_Witness ==
  /\ lastOp.op = "escape"
  /\ lastOp.n = 2
  /\ drawingMode = "none"
  /\ gesture = InitGesture
  /\ tempLayers = 0

\* C3: a double-click in polyline mode emits exactly one polyline with all
\* the accumulated vertices iff at least 2 points were collected (polygon
\* mode: one polygon, at least 3 points), and the gesture is then idle with
\* no points; with fewer points nothing is emitted and the Feature Store is
\* unchanged.
C3_DoubleClickFinalizes ==
  [][ (lastOp'.op = "dblclick" /\ drawingMode \in {"polyline", "polygon"})
      => LET pts == IF drawingMode = "polyline" THEN gesture.polylinePoints
                    ELSE gesture.polygonPoints
             min == IF drawingMode = "polyline" THEN 2 ELSE 3
         IN  IF Len(pts) >= min
               THEN /\ AppendedOne
                    /\ NewFeature.type = drawingMode
                    /\ NewFeature.coordinates =
                         IF drawingMode = "polyline"
                           THEN MapSeq(pts, ToCoord)
                           ELSE <<MapSeq(pts, ToCoord)>>
                    /\ ~gesture'.isDrawing
                    /\ gesture'.polylinePoints = << >>
                    /\ gesture'.polygonPoints = << >>
               ELSE /\ ~Emitted
                    /\ UNCHANGED <<drawnFeatures, undoStack, gesture>> ]_vars

\* a double-click has just turned three polyline points into a feature
C3_Witness ==
  /\ lastOp.op = "dblclick"
  /\ lastOp.n = 3
  /\ drawingMode = "polyline"
  /\ Len(drawnFeatures) = 1
  /\ drawnFeatures[1].type = "polyline"
  /\ Len(drawnFeatures[1].coordinates) = 3
  /\ gesture = InitGesture

\* C4: in rectangle mode the clicks take the step 0 -> 1 -> 2; the third
\* click emits exactly one rectangle, puts the step back to 0 with no
\* points and leaves the mode rectangle; the first click, the second click,
\* a pointer move and a double-click emit nothing.
C4_RectangleSteps ==
  [][ (drawingMode = "rectangle"
       /\ lastOp'.op \in {"click", "mousemove", "dblclick"})
      => IF lastOp'.op = "click"
           THEN CASE gesture.rectangleStep = 0 ->
                       /\ gesture'.rectangleStep = 1
                       /\ ~Emitted /\ UNCHANGED drawnFeatures
                  [] gesture.rectangleStep = 1 ->
                       /\ gesture'.rectangleStep = 2
                       /\ ~Emitted /\ UNCHANGED drawnFeatures
                  [] gesture.rectangleStep = 2 ->
                       /\ AppendedOne
                       /\ NewFeature.type = "rectangle"
                       /\ gesture'.rectangleStep = 0
                       /\ gesture'.rectanglePoints = << >>
                       /\ drawingMode' = "rectangle"
           ELSE /\ ~Emitted
                /\ UNCHANGED <<drawnFeatures, drawingMode>>
                /\ gesture'.rectangleStep = gesture.rectangleStep ]_vars

\* the third click has just emitted a rectangle and the tool is still on
C4_Witness ==
  /\ lastOp.op = "click"
  /\ lastOp.n = 2
  /\ drawingMode = "rectangle"
  /\ gesture.rectangleStep = 0
  /\ gesture.rectanglePoints = << >>
  /\ Len(drawnFeatures) = 1
  /\ drawnFeatures[1].type = "rectangle"

C6_AppendAtEnd ==
  [][ Emitted => AppendedOne /\ undoStack' = << >> ]_vars

\* a feature has just been appended behind an older one, after an undo had
\* filled the discard stack
C6_Witness ==
  /\ lastOp.op = "click"
  /\ nextId = 4
  /\ Len(drawnFeatures) = 2
  /\ drawnFeatures[1].id = 1
  /\ drawnFeatures[2].id = 3
  /\ undoStack = << >>

\* C7: handleUndo on a non-empty store removes exactly the last feature in
\* store order and pushes that feature onto the discard stack, however
\* many undos came before; on an empty store it changes neither.
C7_UndoRemovesLast ==
  [][ lastOp'.op = "undo"
      => IF Len(drawnFeatures) > 0
           THEN /\ drawnFeatures' = Front(drawnFeatures)
                /\ undoStack' =
                     Append(undoStack, drawnFeatures[Len(drawnFeatures)])
           ELSE UNCHANGED <<drawnFeatures, undoStack>> ]_vars

\* the second of two undos in a row has just emptied the store
C7_Witness ==
  /\ lastOp.op = "undo"
  /\ lastOp.n = 1
  /\ drawnFeatures = << >>
  /\ Len(undoStack) = 2
  /\ undoStack[1].id > undoStack[2].id

\* C8: saving the attribute map m for a feature id gives the previous store
\* except that the feature with that id has attributes exactly m (replaced,
\* not merged), its id, kind, coordinates and timestamp and every other
\* feature being unchanged; when no stored feature has the id, the store is
\* unchanged.
C8_SaveReplacesAttributes ==
  [][ lastOp'.op = "save"
      => /\ Len(drawnFeatures') = Len(drawnFeatures)
         /\ \A i \in 1..Len(drawnFeatures) :
              drawnFeatures'[i] =
                IF drawnFeatures[i].id = selectedFeature.id
                  THEN [drawnFeatures[i] EXCEPT !.attributes = attributes]
                  ELSE drawnFeatures[i]
         /\ UNCHANGED undoStack ]_vars

\* a save has just replaced the one attribute a stored feature had by
\* another one
C8_Witness ==
  /\ lastOp.op = "save"
  /\ lastOp.n = 1
  /\ lastOp.had = {{<<"name", "a">>}}
  /\ Len(drawnFeatures) = 1
  /\ drawnFeatures[1].attributes = {<<"type", "b">>}

\* C9: there is no redo: every id is given once, and a step puts into the
\* Feature Store only features that were in it or the feature made in that
\* step; so a feature that undo or erase removed (it sits on the discard
\* stack) is never put back.
C9_NoRedo ==
  [][ /\ \A id \in Ids(drawnFeatures) \cup Ids(undoStack) : id < nextId
      /\ \A id \in Ids(drawnFeatures') :
           id \in Ids(drawnFeatures) \/ (Emitted /\ id = nextId) ]_vars

\* a feature was undone, a second one was drawn and erased, an undo on the
\* empty store has just run: both are only on the discard stack
C9_Witness ==
  /\ lastOp.op = "undo"
  /\ lastOp.n = 0
  /\ drawnFeatures = << >>
  /\ Len(undoStack) = 2
  /\ undoStack[1].id < undoStack[2].id

\* C10 as stated: every polygon or rectangle in the Feature Store has a
\* closed coordinate ring (first point = last point).
C10_RingsClosed ==
  \A i \in 1..Len(drawnFeatures) :
    drawnFeatures[i].type \in {"polygon", "rectangle"}
      => LET ring == drawnFeatures[i].coordinates[1]
         IN  ring[1] = ring[Len(ring)]

\* C1 as stated: while the camera modal is closed, no stream the component
\* obtained has a track that is not stopped.
C1_ClosedNoLiveTrack ==
  ~camera.isOpen => camera.live = {}

\* C11 as stated: every polygon or rectangle in the Feature Store has at
\* least 3 pairwise-distinct vertices in its ring.
C11_ThreeDistinctVertices ==
  \A i \in 1..Len(drawnFeatures) :
    drawnFeatures[i].type \in {"polygon", "rectangle"}
      => LET ring == drawnFeatures[i].coordinates[1]
         IN  Cardinality({ring[k] : k \in 1..Len(ring)}) >= 3

\* a circle gesture has its centre
Tracking == gesture.isDrawing /\ gesture.startPoint # Null

\* C12 (as the code has it): in circle mode the centre is set by a click
\* (a tap), not by a press; each pointer move after it redraws the preview
\* with radius = distance(centre, pointer); the next release emits exactly
\* one circle whose centre is the clicked point and whose radius is that of
\* the last preview, i.e. the distance to the last pointer position
\* reported since the click.  A release with no centre, or with a centre
\* and no move since, emits nothing.
C12_CircleFromClickMoveRelease ==
  [][drawingMode = "circle" =>
       LET c == gesture.startPoint
           circleAt(f, centre, radiusSq) ==
             /\ f.type = "circle"
             /\ f.coordinates = <<ToCoord(centre)>>
             /\ f.radiusSq = radiusSq
       IN
       /\ lastOp'.op = "click" =>
            /\ ~Emitted /\ drawnFeatures' = drawnFeatures
            /\ gesture'.isDrawing
            /\ gesture'.startPoint = IF gesture.isDrawing THEN c ELSE lastOp'.at
            /\ gesture'.currentShape = gesture.currentShape
       /\ lastOp'.op = "mousemove" =>
            /\ ~Emitted /\ drawnFeatures' = drawnFeatures
            /\ gesture'.startPoint = c
            /\ IF Tracking
                 THEN /\ gesture'.currentShape # Null
                      /\ gesture'.currentShape.latlngs = <<c>>
                      /\ gesture'.currentShape.radiusSq = DistSq(c, lastOp'.at)
                 ELSE gesture' = gesture
       /\ lastOp'.op = "mouseup" =>
            /\ IF Tracking /\ gesture.currentShape # Null
                 THEN /\ AppendedOne
                      /\ circleAt(NewFeature, c, gesture.currentShape.radiusSq)
                 ELSE ~Emitted /\ drawnFeatures' = drawnFeatures
            /\ gesture'.startPoint = Null /\ ~gesture'.isDrawing
       /\ lastOp'.op = "drag" =>
            /\ IF Tracking
                 THEN /\ AppendedOne
                      /\ circleAt(NewFeature, c, DistSq(c, lastOp'.to))
                 ELSE ~Emitted /\ drawnFeatures' = drawnFeatures
            /\ gesture'.startPoint = Null /\ ~gesture'.isDrawing
       /\ lastOp'.op \notin {"mousemove", "drag"} =>
            gesture'.currentShape \in {gesture.currentShape, Null}
  ]_vars

\* C12 as stated: a press - move - release sequence in circle mode emits
\* exactly one circle, centred at the press point, with the distance from
\* it to the last pointer position as radius.
C12_PressMoveReleaseEmits ==
  [][drawingMode = "circle" /\ lastOp'.op = "drag" =>
       /\ AppendedOne
       /\ NewFeature.type = "circle"
       /\ NewFeature.coordinates = <<ToCoord(lastOp'.from)>>
       /\ NewFeature.radiusSq = DistSq(lastOp'.from, lastOp'.to)
  ]_vars

\* a click, a move and a release have just stored a circle of non-zero
\* radius, the tool staying active
C12_Witness ==
  /\ lastOp.op = "mouseup"
  /\ drawingMode = "circle"
  /\ Len(drawnFeatures) = 1
  /\ drawnFeatures[1].type = "circle"
  /\ drawnFeatures[1].radiusSq # QZero

\* C13: a step that changes the drawing mode leaves the gesture engine with
\* no accumulated point, rectangle step 0 and no shape in progress, leaves
\* no temporary marker, preview or unfinished shape on the map, and emits
\* no feature.
C13_ModeSwitchResets ==
  [][drawingMode' # drawingMode =>
       /\ gesture' = InitGesture
       /\ tempLayers' = 0
       /\ mapLayers' = mapLayers
       /\ ~Emitted
       /\ drawnFeatures' = drawnFeatures
  ]_vars

\* another tool was selected while a gesture held two points
C13_Witness ==
  /\ lastOp.op = "selectTool"
  /\ lastOp.n = 2
  /\ drawingMode \notin {"none", "rectangle"}
  /\ gesture = InitGesture
  /\ tempLayers = 0

MeasureOps ==
  {"startMeasurement", "measureClick", "measureMove", "measureDblclick",
   "clearTimer", "measureEscape"}

\* the accumulated points suffice for a report
Reportable ==
  \/ measure.measurementType = "distance"
       /\ Len(measure.c.measurementPoints) >= 2
  \/ measure.measurementType = "area"
       /\ Len(measure.c.measurementPoints) >= 3

\* C14: a double-click with at least 2 accumulated points in distance mode,
\* or at least 3 in area mode, calls onMeasurementComplete exactly once
\* (with the type measured and the points accumulated), which ends the
\* measurement; no other step of the overlay calls it: not Escape, not a
\* double-click with fewer points, not a click, a move or the clearing
\* timer, and not the deactivation or the restart of the overlay.
C14_ReportedOncePerDoubleClick ==
  [][lastOp'.op \in MeasureOps =>
       IF lastOp'.op = "measureDblclick" /\ Reportable
         THEN lastOp'.reported = 1 /\ ~measure'.isMeasuring
         ELSE lastOp'.reported = 0
  ]_vars

\* an area of three points has just been reported, and the overlay is off
C14_Witness ==
  /\ lastOp.op = "measureDblclick"
  /\ lastOp.n = 3
  /\ lastOp.reported = 1
  /\ ~measure.isMeasuring

\* C15 as stated: the automatic retries scheduled since the modal was
\* opened, or since Try Again was pressed (camera.retryCount, which
\* handleCameraError increments with each retry timer it sets), never
\* exceed 4.
C15_AtMostFourAutoRetries ==
  camera.retryCount <= 4

\* C16 as stated, for the permanent subtypes: handling NotAllowedError,
\* NotFoundError, NotSupportedError or the missing camera API sets the error
\* and schedules no automatic retry.
C16_NoRetryForPermanentErrors ==
  [][camera'.nHandled # camera.nHandled
       /\ (\/ camera'.handled \in {"NotAllowedError", "NotFoundError",
                                    "NotSupportedError"}
           \/ ~camera.hasApi)
       => /\ camera'.error
          /\ ~camera'.scheduled
          /\ camera'.timers = camera.timers
  ]_vars

\* C17: at most one geolocation watch is registered at any time, it is the
\* one the running effect holds, and while tracking is off no watch is
\* registered.
C17_AtMostOneWatch ==
  /\ Cardinality(gps.watches) <= 1
  /\ gps.watches \subseteq {gps.watchId}
  /\ ~gps.isGPSTracking => gps.watches = {}

\* a geolocation error has just switched tracking off after two fixes, each
\* of which replaced the watch
C17_Witness ==
  /\ lastOp.op = "gpsError"
  /\ lastOp.n = 1
  /\ gps.fixes = 2
  /\ gps.nextWatch = 4
  /\ ~gps.isGPSTracking
  /\ gps.watches = {}

\* C18 as stated: when a file has been read, content that does not parse or
\* is of no GeoJSON type leaves the vector layer list unchanged and raises
\* an alert; a valid file adds exactly one layer at the end of the list and
\* changes no layer that is in it.
C18_UploadAddsOneOrNothing ==
  [][lastOp'.op = "fileLoaded" =>
       IF lastOp'.file.content \in {"FeatureCollection", "Feature"}
         THEN /\ Len(vector'.vectorLayers) = Len(vector.vectorLayers) + 1
              /\ SubSeq(vector'.vectorLayers, 1, Len(vector.vectorLayers))
                   = vector.vectorLayers
              /\ vector'.alerts = vector.alerts
         ELSE /\ vector'.vectorLayers = vector.vectorLayers
              /\ vector'.alerts = vector.alerts + 1
  ]_vars

\* C19: the field photo list only grows at its end. No step removes or
\* changes a photo that is in the list, erasing or undoing a feature
\* included, even when a photo carries that feature's id; saving a photo
\* adds exactly one entry, and nothing else adds any.
PhotoSaved == lastOp'.op = "savePhoto" /\ lastOp' # lastOp
C19_PhotosAppendOnly ==
  [][ /\ Len(photos'.fieldPhotos) >= Len(photos.fieldPhotos)
      /\ SubSeq(photos'.fieldPhotos, 1, Len(photos.fieldPhotos))
           = photos.fieldPhotos
      /\ PhotoSaved =>
           Len(photos'.fieldPhotos) = Len(photos.fieldPhotos) + 1
      /\ ~PhotoSaved => photos'.fieldPhotos = photos.fieldPhotos ]_vars

\* a photo taken for a feature is in the list after the eraser or undo
\* took that feature from the Feature Store
C19_Witness ==
  /\ lastOp.op \in {"eraseClick", "undo"}
  /\ \E k \in 1..Len(photos.fieldPhotos) :
       /\ photos.fieldPhotos[k].featureId # NoFeature
       /\ \A i \in 1..Len(drawnFeatures) :
            drawnFeatures[i].id # photos.fieldPhotos[k].featureId

\* What a CSV reader makes of a text: records of fields.  A quote opens
\* and closes a quoted stretch, in which commas and newlines are data and
\* two quotes stand for one.
Unquoted(text, i) ==
  Cardinality({j \in 1..(i - 1) : text[j] = Quote}) % 2 = 0

\* the pieces of text between the separators that are not quoted
SplitCSV(text, sep) ==
  LET cuts == {i \in 1..Len(text) : text[i] = sep /\ Unquoted(text, i)}
      n == Cardinality(cuts)
      Cut(k) == IF k = 0 THEN 0
                ELSE IF k = n + 1 THEN Len(text) + 1
                ELSE CHOOSE c \in cuts : Cardinality({d \in cuts : d < c}) = k - 1
  IN  [k \in 1..(n + 1) |-> SubSeq(text, Cut(k - 1) + 1, Cut(k) - 1)]

RECURSIVE halveQuotes(_)
halveQuotes(value) ==
  IF value = << >> THEN << >>
  ELSE IF Len(value) >= 2 /\ value[1] = Quote /\ value[2] = Quote
    THEN <<Quote>> \o halveQuotes(Tail(Tail(value)))
  ELSE <<Head(value)>> \o halveQuotes(Tail(value))

FieldValue(field) ==
  IF Len(field) >= 2 /\ Head(field) = Quote /\ field[Len(field)] = Quote
    THEN halveQuotes(SubSeq(field, 2, Len(field) - 1))
    ELSE field

\* the records of a file, without the byte-order mark
ParseCSV(csv) ==
  LET lines == SplitCSV(Tail(csv), Newline)
  IN  [l \in 1..Len(lines) |->
         LET fields == SplitCSV(lines[l], Comma)
         IN  [k \in 1..Len(fields) |-> FieldValue(fields[k])]]

Fields(record) == {record[k] : k \in 1..Len(record)}

\* C20: in every CSV file made with includeGeometry off and
\* includeAttributes on, the header has no geometry_wkt field, every data
\* row has as many fields as the header, and no field of a row is the WKT
\* of its feature; in every file made with includeGeometry on, the header
\* has the geometry_wkt field and every row has its feature's WKT in that
\* column.
C20_GeometryColumnFollowsOption ==
  \A k \in 1..Len(exporter.files) :
    LET file == exporter.files[k]
        records == ParseCSV(file.csv)
        header == records[1]
        rows == Tail(records)
    IN  /\ Len(rows) = Len(file.features)
        /\ (~file.includeGeometry /\ file.includeAttributes) =>
             /\ <<"geometry_wkt">> \notin Fields(header)
             /\ \A r \in 1..Len(rows) :
                  /\ Len(rows[r]) = Len(header)
                  /\ formatCoordinates(file.features[r]) \notin Fields(rows[r])
        /\ file.includeGeometry =>
             /\ <<"geometry_wkt">> \in Fields(header)
             /\ \A r \in 1..Len(rows) :
                  \E c \in 1..Len(header) :
                    /\ header[c] = <<"geometry_wkt">>
                    /\ c <= Len(rows[r])
                    /\ rows[r][c] = formatCoordinates(file.features[r])

\* C21 as stated: the attempt the open timer starts asks for level 0 of
\* constraintLevels, and the attempt the n-th automatic retry timer starts
\* asks for level min(n, 4), n being the retries scheduled since the modal
\* opened (camera.retryCount).
C21_RetriesRelaxConstraints ==
  [][Len(camera'.requests) = Len(camera.requests) + 1 =>
       camera'.requests[Len(camera'.requests)].level =
         (IF camera.retryCount < ConstraintLevels - 1
            THEN camera.retryCount ELSE ConstraintLevels - 1)
  ]_vars

C23_FixKeepsGesture ==
  [][(lastOp'.op = "position" /\ gps' # gps) =>
       /\ gesture' = gesture
       /\ tempLayers' = tempLayers
       /\ measure'.c = measure.c
  ]_vars

\* C24 as stated: when the attribute editor is opened for a feature of the
\* Feature Store, the map the form starts with is that feature's attribute
\* map in the store.
C24_FormShowsStoredAttributes ==
  [][(lastOp'.op = "openForm" /\ lastOp' # lastOp) =>
       attributes' = drawnFeatures[lastOp'.n].attributes
  ]_vars

\* C25: at every state the layers of features shown on the map
\* are those of the features in the Feature Store: every stored feature has
\* its layer on the map, and no feature that was undone or erased has.
C25_StoreMatchesMap ==
  mapLayers = Ids(drawnFeatures)

\* Escape has just discarded a gesture while one finalized feature is in
\* the store and shown, and an undone one is neither
C25_Witness ==
  /\ lastOp.op = "escape"
  /\ lastOp.n >= 1
  /\ drawnFeatures # << >>
  /\ undoStack # << >>
  /\ Ids(drawnFeatures) \subseteq mapLayers
  /\ Ids(undoStack) \cap mapLayers = {}

\* C26 as stated: at every state at most one stream the component obtained
\* has a track that is not stopped.
C26_OneLiveStream ==
  Cardinality(camera.live) <= 1

\* the ready state of CameraCapture: the modal is open, a stream is held
\* and videoReady is true
CameraReady(c) == c.isOpen /\ c.stream # 0 /\ c.videoReady

\* C27 as stated: when the video of the held stream starts to play, so that
\* the component's state is ready, the state the component commits after
\* its own effects have run is ready with the same stream.
C27_ReadyStaysReady ==
  [][\A j \in 1..Len(camera.setups) :
       ( /\ camera.setups[j].intact
         /\ camera.setups[j].stream \in camera.live
         /\ CameraReady(videoResolved(camera, j))
         /\ camera' = Settle(videoResolved(camera, j)) )
       => (CameraReady(camera') /\ camera'.stream = camera.stream)
  ]_vars

\* C28 as stated: at every state the measurement overlay shows one vertex
\* marker per accumulated measurement point; so once the visuals have been
\* cleared no point is left.
C28_MarkersMatchPoints ==
  measure.c.tempMarkers = Len(measure.c.measurementPoints)

\* The popups of stored markers under every tool and measurement state.
RelayNext ==
  \/ \E mode \in Tools : ~camera.isOpen /\ ~measure.isMeasuring /\ SelectTool(mode)
  \/ \E mode \in Tools : ~camera.isOpen /\ SelectToolMeasuring(mode)
  \/ \E type \in MeasureTypes : ~camera.isOpen /\ StartMeasurement(type)
  \/ ~camera.isOpen /\ Click(PhotoPoint)
  \/ \E featureId \in PopupIds : PopupCameraButton(featureId)
  \/ CancelCamera

RelaySpec == Init /\ [][RelayNext]_vars

\* C29 as stated: a press of the camera button in a stored feature's popup
\* leaves the camera open with cameraLinkedFeatureId equal to that
\* feature's id, whatever the drawing mode and the measurement state.
C29_PopupButtonOpensCamera ==
  [][(lastOp'.op = "popupCamera" /\ lastOp' # lastOp) =>
       /\ camera'.isOpen
       /\ photos'.cameraLinkedFeatureId = lastOp'.n
  ]_vars

\* C30 as stated: no vector-layer update is lost.  When a file has been
\* read, every layer of the list is still in it as it was (an earlier
\* upload, a changed visibility), and at most the uploaded layer is new in
\* it (a removed layer does not come back).
C30_NoLostLayerUpdate ==
  [][lastOp'.op = "fileLoaded" =>
       LET old == {vector.vectorLayers[k] : k \in DOMAIN vector.vectorLayers}
           new == {vector'.vectorLayers[k] : k \in DOMAIN vector'.vectorLayers}
       IN  /\ old \subseteq new
           /\ Cardinality(new \ old) <= 1
  ]_vars
====
